---- MODULE Spec2Model ----
(***************************************************************************)
(* Model of the relay service of the Remote-Desktop repository             *)
(* (src/relay/server.py).  The relay is a single-threaded asyncio program: *)
(* every connection is served by one coroutine (_handle_connection), and   *)
(* coroutines interleave only at `await`.  Each action below is the code   *)
(* that runs between two suspension points of one coroutine.  The module   *)
(* also models the relay's two endpoints, the host agent                   *)
(* (src/relay/host_agent.py) and the viewer (src/relay/viewer.py), and the *)
(* application message codec they share (common/protocol.py), each under   *)
(* a specification of its own.                                             *)
(***************************************************************************)
EXTENDS Integers, Sequences, FiniteSets, TLC

(***************************************************************************)
(* Bounds of the model.                                                    *)
(***************************************************************************)
NConns == 3      \* websocket connections accepted during a run
MaxData == 2     \* data messages the endpoints send after their first messages
MaxDataShutdown == 1   \* the same, in runs with stop()
RngChars == 2    \* alphabet characters the random source emits in the model
MaxFrames == 12  \* frames the host agent sends during a run
MaxFramesWindow == 32  \* the same, in runs that fill the window of send times
MaxSwitch == 1   \* times the network's send time changes during a run
MaxApplied == 2  \* input events the host agent applies during a run
\* the values of --quality tried, of the 1..100 the command line accepts
StartQualities == {1, 29, 30, 70, 85, 86, 100}
MaxViewerSent == 2  \* messages the viewer puts on its socket during a run
MaxClock == 2    \* milliseconds the clock advances during a run
MaxSide == 3     \* the largest side of a window or screen, in pixels
MaxFrameNo == 4  \* the largest frame number a frame added to the buffer carries
MaxReturned == 3 \* frames the frame buffer returns during a run
NSigConns == 2   \* connections to the signaling server
MaxSigClock == 2 \* seconds the signaling server's clock advances during a run
session_timeout == 1  \* SignalingConfig.session_timeout, in seconds
max_sessions == 2     \* SignalingConfig.max_sessions
WindowSizes == (1..MaxSide) \X (1..MaxSide)
\* the send times of a frame, in milliseconds: fast, moderate and slow
SendTimes == {2, 10, 40}

(***************************************************************************)
(* Program constants.                                                      *)
(***************************************************************************)
HOST_REGISTER == 1
HOST_REGISTERED == 2
CLIENT_JOIN == 3
CLIENT_JOINED == 4
CLIENT_CONNECTED == 5
DISCONNECT == 16
ERROR == 17
RELAY_DATA == 32
CodeLength == 6
MaxAttempts == 100
FRAME == 32
INPUT == 33
MOUSE_MOVE == 1
MOUSE_DOWN == 2
MOUSE_UP == 3
MOUSE_SCROLL == 4
KEY_DOWN == 5
KEY_UP == 6
capture_fps == 30
min_quality == 30
max_quality == 85
FrameWindow == 30
AdaptAfter == 10
HEADER_SIZE == 13

Conns == 1..NConns
None == 0
Stopper == 0                 \* the task running RelayServer.stop()
Tasks == {Stopper} \cup Conns
NoCode == <<>>

alphabet ==
  <<"A","B","C","D","E","F","G","H","J","K","M","N","P","Q","R","S","T","U","V",
    "W","X","Y","Z","2","3","4","5","6","7","8","9">>

\* lower-case forms of the characters of `alphabet` (digits have none)
lower_alphabet ==
  <<"a","b","c","d","e","f","g","h","j","k","m","n","p","q","r","s","t","u","v",
    "w","x","y","z","2","3","4","5","6","7","8","9">>

\* generate_session_code drawing one character too few, in lower case
generate_session_code_Short(length) ==
  { [i \in 1..(length - 1) |-> IF i < length - 1 THEN alphabet[1] ELSE lower_alphabet[k]] :
      k \in 1..RngChars }

\* generate_session_code(): `length` independent draws from the alphabet.
\* The model's random source varies the last character only, over the first
\* RngChars characters of the alphabet.
generate_session_code(length) ==
  { [i \in 1..length |-> IF i < length THEN alphabet[1] ELSE alphabet[k]] :
      k \in 1..RngChars }

\* str.upper() on the model's character universe
ToUpper(ch) ==
  IF \E i \in 1..Len(alphabet) : lower_alphabet[i] = ch
  THEN alphabet[CHOOSE i \in 1..Len(alphabet) : lower_alphabet[i] = ch]
  ELSE ch

ToLower(ch) ==
  IF \E i \in 1..Len(alphabet) : alphabet[i] = ch
  THEN lower_alphabet[CHOOSE i \in 1..Len(alphabet) : alphabet[i] = ch]
  ELSE ch

str_upper(s) == [i \in 1..Len(s) |-> ToUpper(s[i])]
str_lower(s) == [i \in 1..Len(s) |-> ToLower(s[i])]

RECURSIVE lstrip(_)
lstrip(s) == IF s # <<>> /\ Head(s) = " " THEN lstrip(Tail(s)) ELSE s

RECURSIVE rstrip(_)
rstrip(s) ==
  IF s # <<>> /\ s[Len(s)] = " " THEN rstrip(SubSeq(s, 1, Len(s) - 1)) ELSE s

str_strip(s) == rstrip(lstrip(s))

\* data.get('session_code', '').upper().strip()
normalize_code(raw) == str_strip(str_upper(raw))

(***************************************************************************)
(* Wire messages.  b0 is the first byte (-1: the empty message); json says *)
(* whether the payload parses as a JSON object; code, text: the fields     *)
(* session_code and message/reason/error; src, n identify forwarded data.  *)
(***************************************************************************)
Msg(b0, json, code, key, text, src, n) ==
  [b0 |-> b0, json |-> json, code |-> code, key |-> key, text |-> text,
   src |-> src, n |-> n]

NoMsg == Msg(-2, "none", NoCode, "", "", None, 0)   \* no message at all
EmptyMsg == Msg(-1, "none", NoCode, "", "", None, 0)
RegisterMsg == Msg(HOST_REGISTER, "ok", NoCode, "", "", None, 0)
JoinMsg(raw) == Msg(CLIENT_JOIN, "ok", raw, "", "", None, 0)
BadJoinMsg == Msg(CLIENT_JOIN, "bad", NoCode, "", "", None, 0)
DataMsg(w, k) == Msg(RELAY_DATA, "none", NoCode, "", "", w, k)
\* a well-formed HOST_REGISTER or CLIENT_JOIN (first byte b0) that endpoint w
\* sends as its k-th message after the first; a join names the first code
\* the generator can draw
LateMsg(w, k, b0) ==
  Msg(b0, "ok", IF b0 = CLIENT_JOIN THEN [i \in 1..CodeLength |-> alphabet[1]] ELSE NoCode,
      "", "", w, k)

HostRegisteredMsg(code) ==
  Msg(HOST_REGISTERED, "ok", code, "message",
      "Share this code with the remote user", None, 0)
ClientJoinedMsg(code) ==
  Msg(CLIENT_JOINED, "ok", code, "message", "Connected to host", None, 0)
ClientConnectedMsg ==
  Msg(CLIENT_CONNECTED, "ok", NoCode, "message", "Client connected", None, 0)
ClientDisconnectedMsg ==
  Msg(DISCONNECT, "ok", NoCode, "message", "Client disconnected", None, 0)
CloseNotifyMsg(reason) ==
  Msg(DISCONNECT, "ok", NoCode, "reason", reason, None, 0)
ErrorMsg(message, code, n) == Msg(ERROR, "ok", code, "error", message, None, n)

\* raw session codes a viewer may put in CLIENT_JOIN: every code the relay can
\* issue, as issued and in lower case padded with blanks, and the empty string
JoinInputs ==
  generate_session_code(CodeLength)
    \cup { <<" ">> \o str_lower(c) \o <<" ">> : c \in generate_session_code(CodeLength) }
    \cup { <<>> }

FirstMessages ==
  {RegisterMsg, BadJoinMsg, EmptyMsg} \cup { JoinMsg(raw) : raw \in JoinInputs }

VARIABLES
  running,        \* RelayServer._running
  accepting,      \* the listening socket of start() is open
  sessions,       \* RelayServer._sessions: insertion-ordered <<[code, sid]>>
  ws_to_session,  \* RelayServer._ws_to_session: connection -> code
  sess,           \* the RelaySession objects, by identity (sid)
  pc,             \* position of each coroutine
  my,             \* the local `session` of a connection's coroutine
  loop_ws,        \* the websocket a viewer-forward loop iterates
  todo,           \* stop(): codes still to close
  inbox,          \* messages received on each connection, not yet read
  out,            \* messages the relay has sent on each connection
  closed,         \* the peer closed the connection
  rclosed,        \* the relay closed the connection
  nsent,          \* data messages the endpoints have sent
  rd,             \* history: messages the forward loops read off each socket
  mark            \* history: Len(rd[host]) when a viewer was attached

VARIABLES
  agent_pc,          \* RelayHostAgent: "none", "created", "started"
  jpeg_quality,      \* RelayHostConfig.jpeg_quality, as given on the command line
  agent_running,     \* RelayHostAgent._running
  client_connected,  \* RelayHostAgent._client_connected
  control_granted,   \* RelayHostAgent._control_granted
  control_callback,  \* RelayHostAgent._control_callback is set
  request_seen,      \* a REQUEST_CONTROL was read since the last CLIENT_CONNECTED
  recv_pc,           \* position of _receive_loop
  stream_pc,         \* position of _stream_loop
  current_quality,   \* RelayHostAgent._current_quality
  encoder_quality,   \* RelayHostAgent.encoder.quality
  frame_times,       \* RelayHostAgent._frame_times
  frames_sent,       \* RelayHostAgent._frames_sent
  applied,           \* the pyautogui calls made, in order
  switches           \* how often the network's send time has changed

HostAgentVars ==
  <<agent_pc, jpeg_quality, agent_running, client_connected, control_granted,
    control_callback, request_seen, recv_pc, stream_pc, current_quality,
    encoder_quality,
    frame_times, frames_sent, applied, switches>>

VARIABLES
  viewer_pc,         \* RelayViewer.run: "none", "main", "closed"
  viewer_running,    \* RelayViewer.running
  has_control,       \* RelayViewer._has_control
  control_requested, \* RelayViewer._control_requested
  screen,            \* RelayViewer.screen is set
  remote_size,       \* RelayViewer.remote_width, remote_height
  display_size,      \* RelayViewer.display_width, display_height
  vrecv_pc,          \* position of RelayViewer.receive_loop
  viewer_out         \* messages the viewer has put on its socket

ViewerVars ==
  <<viewer_pc, viewer_running, has_control, control_requested, screen,
    remote_size, display_size, vrecv_pc, viewer_out>>

VARIABLES
  clock,             \* time.time() * 1000, as pack_header reads it
  codec_pc,          \* "idle", "encoded", "decoded", "reencoded"
  wire,              \* the bytes of a packed message
  decoded,           \* the message object parse_message made of `wire`
  rewire,            \* the bytes of `decoded`, packed again
  scrolled           \* the amount the host agent last passed to pyautogui.scroll

CodecVars == <<clock, codec_pc, wire, decoded, rewire, scrolled>>

VARIABLES
  sig_sessions,      \* SessionManager.sessions: session id -> Session
  sig_now,           \* time.time() at the signaling server, in seconds
  sig_conn,          \* per connection to the signaling server: "none", "open", "closed"
  sig_reply,         \* the last message the server wrote, and on which connection
  asked_taken        \* history: the last REGISTER asked for an id that was registered

SignalingVars == <<sig_sessions, sig_now, sig_conn, sig_reply, asked_taken>>

RelayVars ==
  <<running, accepting, sessions, ws_to_session, sess, pc, my, loop_ws,
    todo, inbox, out, closed, rclosed, nsent, rd, mark>>

\* what the relay's own steps leave alone
VARIABLES
  fb_frames,         \* FrameBuffer._frames, as the frame numbers in list order
  fb_last,           \* FrameBuffer._last_displayed_frame
  fb_returned        \* history: the frames get_next and get_latest have returned

FrameBufferVars == <<fb_frames, fb_last, fb_returned>>

NonRelay == <<HostAgentVars, ViewerVars, CodecVars, SignalingVars, FrameBufferVars>>

vars == <<RelayVars, NonRelay>>

(***************************************************************************)
(* The dictionaries of RelayServer.                                        *)
(***************************************************************************)
Codes(ss) == { ss[i].code : i \in 1..Len(ss) }

\* self._sessions.get(code), for a code that is present
Lookup(ss, code) == ss[CHOOSE i \in 1..Len(ss) : ss[i].code = code].sid

\* self._sessions.pop(code, None)
DictPop(ss, code) == SelectSeq(ss, LAMBDA e : e.code # code)

\* self._sessions[code] = session
DictPut(ss, code, sid) ==
  IF code \in Codes(ss)
  THEN [i \in 1..Len(ss) |-> IF ss[i].code = code THEN [code |-> code, sid |-> sid]
                             ELSE ss[i]]
  ELSE Append(ss, [code |-> code, sid |-> sid])

\* list(self._sessions.values()), as the codes stop() will close
DictKeys(ss) == [i \in 1..Len(ss) |-> ss[i].code]

MapPop(f, w) == [x \in DOMAIN f \ {w} |-> f[x]]
MapPut(f, w, v) == [x \in DOMAIN f \cup {w} |-> IF x = w THEN v ELSE f[x]]

(***************************************************************************)
(* The relay's state as one value, so that the code a coroutine runs       *)
(* between two suspension points composes into one action.                 *)
(***************************************************************************)
Cur ==
  [running |-> running, accepting |-> accepting, sessions |-> sessions,
   ws |-> ws_to_session, sess |-> sess, pc |-> pc, my |-> my,
   loop_ws |-> loop_ws, todo |-> todo, inbox |-> inbox, out |-> out,
   closed |-> closed, rclosed |-> rclosed, rd |-> rd, mark |-> mark]

Commit(st) ==
  /\ running' = st.running
  /\ accepting' = st.accepting
  /\ sessions' = st.sessions
  /\ ws_to_session' = st.ws
  /\ sess' = st.sess
  /\ pc' = st.pc
  /\ my' = st.my
  /\ loop_ws' = st.loop_ws
  /\ todo' = st.todo
  /\ inbox' = st.inbox
  /\ out' = st.out
  /\ closed' = st.closed
  /\ rclosed' = st.rclosed
  /\ rd' = st.rd
  /\ mark' = st.mark
  /\ UNCHANGED NonRelay

\* websocket.send / recv raise ConnectionClosed on a connection that is not open
IsOpen(st, c) == st.pc[c] # "new" /\ ~st.closed[c] /\ ~st.rclosed[c]

\* `await ws.send(m)` on an open connection
Send(st, c, m) == IF IsOpen(st, c) THEN [st EXCEPT !.out[c] = Append(@, m)] ELSE st

\* _handle_connection returns: the server closes the connection
Finish(st, w) ==
  [st EXCEPT !.pc[w] = "done", !.rclosed[w] = TRUE, !.loop_ws[w] = None]

Reason(T) == IF T = Stopper THEN "Server shutting down" ELSE "Host disconnected"

(***************************************************************************)
(* _close_session, run by task T (a host's coroutine, or stop()).  Each    *)
(* piece ends at a suspension point or at the return (pc "cs_return").     *)
(***************************************************************************)
\* CloseHostPart closing the host without the DISCONNECT notification
CloseHostPart_Silent(st, s, T) ==
  LET h == st.sess[s].host_ws IN
  IF IsOpen(st, h)
  THEN [st EXCEPT !.pc[T] = "cs_host_sent"]
  ELSE [st EXCEPT !.ws = MapPop(@, h), !.pc[T] = "cs_return"]

\* "# Notify and close host" up to the first await that suspends
CloseHostPart(st, s, T) ==
  LET h == st.sess[s].host_ws IN
  IF IsOpen(st, h)
  THEN [Send(st, h, CloseNotifyMsg(Reason(T))) EXCEPT !.pc[T] = "cs_host_sent"]
  ELSE [st EXCEPT !.ws = MapPop(@, h), !.pc[T] = "cs_return"]

\* self._ws_to_session.pop(session.client_ws, None), then the host part
ClosePopClient(st, s, T) ==
  CloseHostPart([st EXCEPT !.ws = MapPop(@, st.sess[s].client_ws)], s, T)

\* CloseStart reading the session with get() instead of pop()
CloseStart_KeepRegistry(st, code, T) ==
  IF code \notin Codes(st.sessions)
  THEN [st EXCEPT !.pc[T] = "cs_return"]
  ELSE LET s == Lookup(st.sessions, code)
           st1 == [st EXCEPT !.my[T] = s]
           v == st.sess[s].client_ws
       IN  IF v = None THEN CloseHostPart(st1, s, T)
           ELSE IF IsOpen(st1, v)
           THEN [Send(st1, v, CloseNotifyMsg(Reason(T))) EXCEPT !.pc[T] = "cs_client_sent"]
           ELSE ClosePopClient(st1, s, T)

\* session = self._sessions.pop(code, None) ... await session.client_ws.send(notify)
CloseStart(st, code, T) ==
  IF code \notin Codes(st.sessions)
  THEN [st EXCEPT !.pc[T] = "cs_return"]
  ELSE LET s == Lookup(st.sessions, code)
           st1 == [st EXCEPT !.sessions = DictPop(@, code), !.my[T] = s]
           v == st.sess[s].client_ws
       IN  IF v = None THEN CloseHostPart(st1, s, T)
           ELSE IF IsOpen(st1, v)
           THEN [Send(st1, v, CloseNotifyMsg(Reason(T))) EXCEPT !.pc[T] = "cs_client_sent"]
           ELSE ClosePopClient(st1, s, T)

\* await session.client_ws.close(), the slot read again after the send
CloseClientCloseStep(st, T) ==
  LET s == st.my[T]
      v == st.sess[s].client_ws
  IN  IF v = None THEN ClosePopClient(st, s, T)
      ELSE [st EXCEPT !.rclosed[v] = TRUE, !.pc[T] = "cs_client_closing"]

\* await session.host_ws.close()
CloseHostCloseStep(st, T) ==
  [st EXCEPT !.rclosed[st.sess[st.my[T]].host_ws] = TRUE, !.pc[T] = "cs_host_closing"]

\* self._ws_to_session.pop(session.host_ws, None): _close_session returns
CloseHostClosedStep(st, T) ==
  [st EXCEPT !.ws = MapPop(@, st.sess[st.my[T]].host_ws), !.pc[T] = "cs_return"]

\* self._server.close(): no new connections, every open connection is closed
ServerClose(st) ==
  [st EXCEPT !.accepting = FALSE,
             !.rclosed = [c \in Conns |-> st.rclosed[c] \/ st.pc[c] # "new"],
             !.pc[Stopper] = "wait_closed"]

\* stop(): the for loop over the sessions listed when it began
RECURSIVE StopLoop(_)
StopLoop(st) ==
  IF st.todo = <<>> THEN ServerClose(st)
  ELSE LET st1 == CloseStart([st EXCEPT !.todo = Tail(@)], Head(st.todo), Stopper)
       IN  IF st1.pc[Stopper] = "cs_return" THEN StopLoop(st1) ELSE st1

\* what the caller of _close_session does when it returns
AfterClose(st, T) ==
  IF st.pc[T] # "cs_return" THEN st
  ELSE IF T = Stopper THEN StopLoop(st)
  ELSE Finish(st, T)

(***************************************************************************)
(* _handle_disconnect, from the `finally` of _handle_connection.           *)
(***************************************************************************)
HandleDisconnect(st, w) ==
  IF w \notin DOMAIN st.ws THEN Finish(st, w)
  ELSE
    LET code == st.ws[w]
        st1 == [st EXCEPT !.ws = MapPop(@, w)]
    IN  IF code \notin Codes(st1.sessions) THEN Finish(st1, w)
        ELSE
          LET s == Lookup(st1.sessions, code) IN
          IF st1.sess[s].host_ws = w
          THEN AfterClose(CloseStart(st1, code, w), w)
          ELSE IF st1.sess[s].client_ws = w
          THEN Finish(Send([st1 EXCEPT !.sess[s].client_ws = None],
                           st1.sess[s].host_ws, ClientDisconnectedMsg), w)
          ELSE Finish(st1, w)

(***************************************************************************)
(* Registration and join.                                                  *)
(***************************************************************************)
\* _generate_unique_code returning the first draw, registered or not
generate_unique_code_NoCheck(ss, attempts) == generate_session_code(CodeLength)

\* _generate_unique_code: every result the loop can produce.  It returns the
\* first drawn code that is not registered; NoCode stands for the RuntimeError
\* raised when each of the attempts drew a registered code
generate_unique_code(ss, attempts) ==
  LET drawn == generate_session_code(CodeLength) IN
  { c \in drawn : attempts >= 1 /\ c \notin Codes(ss) }
    \cup (IF \A k \in 1..attempts : \E c \in drawn : c \in Codes(ss)
          THEN {NoCode} ELSE {})

NewSession(code, w) == [session_code |-> code, host_ws |-> w, client_ws |-> None]

\* _handle_host_register with the code the allocator produced
HandleHostRegister(st, w, code) ==
  IF code = NoCode THEN HandleDisconnect(st, w)
  ELSE
    LET st1 == [st EXCEPT !.sessions = DictPut(@, code, w),
                          !.ws = MapPut(@, w, code),
                          !.sess = MapPut(@, w, NewSession(code, w)),
                          !.my[w] = w]
    IN  IF IsOpen(st1, w)
        THEN [Send(st1, w, HostRegisteredMsg(code)) EXCEPT !.pc[w] = "host_loop"]
        ELSE HandleDisconnect(st1, w)

\* Reject returning without the ERROR message
Reject_Silent(st, w, message, code, n) == HandleDisconnect(st, w)

\* _send_error, then the return into the `finally` of _handle_connection
Reject(st, w, message, code, n) ==
  HandleDisconnect(Send(st, w, ErrorMsg(message, code, n)), w)

\* has_client testing the host transport instead of the viewer slot
has_client_Never(st, s) == st.sess[s].host_ws = None

\* RelaySession.has_client
has_client(st, s) == st.sess[s].client_ws # None

\* Attach storing the joining websocket in the host field
Attach_AsHost(st, w, s, session_code) ==
  [st EXCEPT !.sess[s].host_ws = w,
             !.ws = MapPut(@, w, session_code),
             !.my[w] = s,
             !.mark[w] = Len(st.rd[st.sess[s].host_ws])]

\* "# Join session": the slot and the reverse map; mark[w] records how much
\* the host loop had read from the host by then
Attach(st, w, s, session_code) ==
  [st EXCEPT !.sess[s].client_ws = w,
             !.ws = MapPut(@, w, session_code),
             !.my[w] = s,
             !.mark[w] = Len(st.rd[st.sess[s].host_ws])]

\* HandleClientJoin attaching the viewer without sending it CLIENT_JOINED
HandleClientJoin_NoReply(st, w, m) ==
  IF m.json # "ok" THEN Reject(st, w, "Invalid join request", NoCode, 0)
  ELSE
    LET session_code == normalize_code(m.code) IN
    IF session_code = <<>> THEN Reject(st, w, "Session code required", NoCode, 0)
    ELSE IF session_code \notin Codes(st.sessions)
    THEN Reject(st, w, "Session not found: ", session_code, 0)
    ELSE
      LET s == Lookup(st.sessions, session_code) IN
      IF has_client(st, s)
      THEN Reject(st, w, "Session already has a client connected", NoCode, 0)
      ELSE
        LET st1 == Attach(st, w, s, session_code)
        IN  IF IsOpen(st1, w)
            THEN [st1 EXCEPT !.pc[w] = "joined_sent"]
            ELSE HandleDisconnect(st1, w)

\* _handle_client_join up to `await websocket.send(response)`
HandleClientJoin(st, w, m) ==
  IF m.json # "ok" THEN Reject(st, w, "Invalid join request", NoCode, 0)
  ELSE
    LET session_code == normalize_code(m.code) IN
    IF session_code = <<>> THEN Reject(st, w, "Session code required", NoCode, 0)
    ELSE IF session_code \notin Codes(st.sessions)
    THEN Reject(st, w, "Session not found: ", session_code, 0)
    ELSE
      LET s == Lookup(st.sessions, session_code) IN
      IF has_client(st, s)
      THEN Reject(st, w, "Session already has a client connected", NoCode, 0)
      ELSE
        LET st1 == Attach(st, w, s, session_code)
        IN  IF IsOpen(st1, w)
            THEN [Send(st1, w, ClientJoinedMsg(session_code))
                    EXCEPT !.pc[w] = "joined_sent"]
            ELSE HandleDisconnect(st1, w)

\* Dispatch taking every first byte other than CLIENT_JOIN for HOST_REGISTER
Dispatch_DefaultRegister(st, w, m, code) ==
  IF m.b0 = CLIENT_JOIN THEN HandleClientJoin(st, w, m)
  ELSE HandleHostRegister(st, w, code)

\* _handle_connection from the first message to the first suspension
Dispatch(st, w, m, code) ==
  IF m.b0 = -1 THEN Reject(st, w, "Empty message", NoCode, 0)
  ELSE IF m.b0 = HOST_REGISTER THEN HandleHostRegister(st, w, code)
  ELSE IF m.b0 = CLIENT_JOIN THEN HandleClientJoin(st, w, m)
  ELSE Reject(st, w, "Expected HOST_REGISTER or CLIENT_JOIN, got ", NoCode, m.b0)

(***************************************************************************)
(* The forward loops.                                                      *)
(***************************************************************************)
\* the next message of `async for message in ws`
Take(st, c) ==
  [st EXCEPT !.inbox[c] = Tail(@), !.rd[c] = Append(@, Head(st.inbox[c]))]

\* RelayLoopHostBody leaving the loop when no viewer is attached
RelayLoopHostBody_BreakOnNoClient(st, h, m) ==
  LET s == st.my[h]
      v == st.sess[s].client_ws
  IN  IF ~st.running \/ v = None THEN HandleDisconnect(st, h)
      ELSE IF IsOpen(st, v) THEN Send(st, v, m)
      ELSE [st EXCEPT !.sess[s].client_ws = None]

\* RelayLoopHostBody forwarding a rewritten message
RelayLoopHostBody_Rewrite(st, h, m) ==
  LET s == st.my[h]
      v == st.sess[s].client_ws
  IN  IF ~st.running THEN HandleDisconnect(st, h)
      ELSE IF v = None THEN st
      ELSE IF IsOpen(st, v) THEN Send(st, v, [m EXCEPT !.n = 0])
      ELSE [st EXCEPT !.sess[s].client_ws = None]

\* RelayLoopHostBody dispatching a HOST_REGISTER as _handle_connection does
RelayLoopHostBody_Reregister(st, h, m) ==
  LET s == st.my[h]
      v == st.sess[s].client_ws
      free == { c \in generate_session_code(CodeLength) : c \notin Codes(st.sessions) }
  IN  IF ~st.running THEN HandleDisconnect(st, h)
      ELSE IF m.b0 = HOST_REGISTER /\ free # {}
        THEN [st EXCEPT !.sessions = DictPut(@, CHOOSE c \in free : TRUE, h)]
      ELSE IF v = None THEN st
      ELSE IF IsOpen(st, v) THEN Send(st, v, m)
      ELSE [st EXCEPT !.sess[s].client_ws = None]

\* one iteration of _relay_loop_host on message m
RelayLoopHostBody(st, h, m) ==
  LET s == st.my[h]
      v == st.sess[s].client_ws
  IN  IF ~st.running THEN HandleDisconnect(st, h)
      ELSE IF v = None THEN st
      ELSE IF IsOpen(st, v) THEN Send(st, v, m)
      ELSE [st EXCEPT !.sess[s].client_ws = None]

\* the `finally` of _relay_loop_client, then that of _handle_connection
ClientExit(st, w) ==
  LET s == st.my[w]
      st1 == IF st.sess[s].session_code \in Codes(st.sessions)
             THEN [st EXCEPT !.sess[s].client_ws = None]
             ELSE st
  IN  HandleDisconnect(st1, w)

\* RelayLoopClientBody sending to session.client_ws, as the host loop does
RelayLoopClientBody_ToClient(st, w, m) ==
  LET h == st.sess[st.my[w]].client_ws IN
  IF ~st.running THEN ClientExit(st, w)
  ELSE IF h # None /\ IsOpen(st, h) THEN [Send(st, h, m) EXCEPT !.pc[w] = "client_send"]
  ELSE ClientExit(st, w)

\* one iteration of _relay_loop_client on message m
RelayLoopClientBody(st, w, m) ==
  LET h == st.sess[st.my[w]].host_ws IN
  IF ~st.running THEN ClientExit(st, w)
  ELSE IF IsOpen(st, h) THEN [Send(st, h, m) EXCEPT !.pc[w] = "client_send"]
  ELSE ClientExit(st, w)

\* recv() of the iterated websocket, by a coroutine that is not waiting on it:
\* RuntimeError if another coroutine is waiting for its next message
ClientRecv(st, w) ==
  LET c == st.loop_ws[w] IN
  IF \E t \in Conns \ {w} : st.pc[t] = "client_wait" /\ st.loop_ws[t] = c
  THEN ClientExit(st, w)
  ELSE IF st.inbox[c] # <<>>
  THEN RelayLoopClientBody(Take(st, c), w, Head(st.inbox[c]))
  ELSE IF st.closed[c] \/ st.rclosed[c] THEN ClientExit(st, w)
  ELSE [st EXCEPT !.pc[w] = "client_wait"]

\* `async for message in session.client_ws`: the slot is read when the loop
\* starts; None is not iterable (TypeError, caught by `except Exception`)
ClientLoopStart(st, w) ==
  LET c == st.sess[st.my[w]].client_ws IN
  IF c = None THEN ClientExit(st, w)
  ELSE ClientRecv([st EXCEPT !.loop_ws[w] = c], w)

(***************************************************************************)
(* Initial state: the RelayServer as constructed, no connection yet.       *)
(***************************************************************************)
Init ==
  /\ running = FALSE
  /\ accepting = FALSE
  /\ sessions = <<>>
  /\ ws_to_session = <<>>
  /\ sess = <<>>
  /\ pc = [t \in Tasks |-> IF t = Stopper THEN "init" ELSE "new"]
  /\ my = [t \in Tasks |-> None]
  /\ loop_ws = [c \in Conns |-> None]
  /\ todo = <<>>
  /\ inbox = [c \in Conns |-> <<>>]
  /\ out = [c \in Conns |-> <<>>]
  /\ closed = [c \in Conns |-> FALSE]
  /\ rclosed = [c \in Conns |-> FALSE]
  /\ nsent = 0
  /\ rd = [c \in Conns |-> <<>>]
  /\ mark = [c \in Conns |-> 0]
  /\ agent_pc = "none"
  /\ jpeg_quality = 0
  /\ agent_running = FALSE
  /\ client_connected = FALSE
  /\ control_granted = FALSE
  /\ control_callback = FALSE
  /\ request_seen = FALSE
  /\ recv_pc = "idle"
  /\ stream_pc = "idle"
  /\ current_quality = 0
  /\ encoder_quality = 0
  /\ frame_times = <<>>
  /\ frames_sent = 0
  /\ applied = <<>>
  /\ switches = 0
  /\ viewer_pc = "none"
  /\ viewer_running = FALSE
  /\ has_control = FALSE
  /\ control_requested = FALSE
  /\ screen = FALSE
  /\ remote_size = <<0, 0>>
  /\ display_size = <<0, 0>>
  /\ vrecv_pc = "idle"
  /\ viewer_out = <<>>
  /\ clock = 0
  /\ codec_pc = "idle"
  /\ wire = <<>>
  /\ decoded = [cls |-> "None"]
  /\ rewire = <<>>
  /\ scrolled = 0
  /\ sig_sessions = [sid \in {} |-> <<>>]
  /\ sig_now = 0
  /\ sig_conn = [c \in 1..NSigConns |-> "none"]
  /\ sig_reply = [to |-> None, msg |-> [cls |-> "None"]]
  /\ asked_taken = FALSE
  /\ fb_frames = <<>>
  /\ fb_last = 0 - 1
  /\ fb_returned = <<>>

Endpoint == <<nsent>>

(***************************************************************************)
(* The endpoints.                                                          *)
(***************************************************************************)
\* the peer sends a further message
EndpointSend(w) ==
  /\ pc[w] # "new" /\ ~closed[w] /\ ~rclosed[w]
  /\ nsent < MaxData
  /\ inbox' = [inbox EXCEPT ![w] = Append(@, DataMsg(w, nsent + 1))]
  /\ nsent' = nsent + 1
  /\ UNCHANGED <<running, accepting, sessions, ws_to_session, sess, pc, my,
                 loop_ws, todo, out, closed, rclosed, rd, mark>>
  /\ UNCHANGED NonRelay

\* the peer sends a HOST_REGISTER or CLIENT_JOIN on its established connection
EndpointSendLate(w, b0) ==
  /\ pc[w] # "new" /\ ~closed[w] /\ ~rclosed[w]
  /\ nsent < MaxData
  /\ inbox' = [inbox EXCEPT ![w] = Append(@, LateMsg(w, nsent + 1, b0))]
  /\ nsent' = nsent + 1
  /\ UNCHANGED <<running, accepting, sessions, ws_to_session, sess, pc, my,
                 loop_ws, todo, out, closed, rclosed, rd, mark>>
  /\ UNCHANGED NonRelay

\* the peer's transport closes
EndpointClose(w) ==
  /\ pc[w] # "new" /\ ~closed[w] /\ ~rclosed[w]
  /\ closed' = [closed EXCEPT ![w] = TRUE]
  /\ UNCHANGED <<running, accepting, sessions, ws_to_session, sess, pc, my,
                 loop_ws, todo, inbox, out, rclosed, nsent, rd, mark>>
  /\ UNCHANGED NonRelay

(***************************************************************************)
(* The relay's coroutines.                                                 *)
(***************************************************************************)
\* start()
Start ==
  /\ pc[Stopper] = "init"
  /\ Commit([Cur EXCEPT !.running = TRUE, !.accepting = TRUE, !.pc[Stopper] = "idle"])
  /\ UNCHANGED Endpoint

\* _handle_connection, from the accepted connection to its first suspension
\* after `await websocket.recv()`.  The peer opens the websocket and sends m
\* as its first message (NoMsg: none, and recv() ends in TimeoutError or
\* ConnectionClosed); gone: its transport has closed by the time m is read.
\* The wait for m touches no state of the relay, so it is not a step of its
\* own; connections are numbered in the order their first message is read.
Accept(w, m, gone) ==
  /\ accepting
  /\ pc[w] = "new"
  /\ \A u \in Conns : u < w => pc[u] # "new"
  /\ LET st == [Cur EXCEPT !.pc[w] = "recv_first", !.closed[w] = gone] IN
       IF m = NoMsg THEN Commit(HandleDisconnect(st, w))
       ELSE \E code \in generate_unique_code(sessions, MaxAttempts) :
              Commit(Dispatch(st, w, m, code))
  /\ UNCHANGED Endpoint

\* _relay_loop_host: a message from the host
HostLoopRecv(h) ==
  /\ pc[h] = "host_loop"
  /\ inbox[h] # <<>>
  /\ Commit(RelayLoopHostBody(Take(Cur, h), h, Head(inbox[h])))
  /\ UNCHANGED Endpoint

\* _relay_loop_host: the host's connection is closed
HostLoopEnd(h) ==
  /\ pc[h] = "host_loop"
  /\ inbox[h] = <<>>
  /\ closed[h] \/ rclosed[h]
  /\ Commit(HandleDisconnect(Cur, h))
  /\ UNCHANGED Endpoint

\* _handle_client_join after CLIENT_JOINED: notify the host
JoinNotifyHost(w) ==
  /\ pc[w] = "joined_sent"
  /\ LET h == sess[my[w]].host_ws IN
       Commit(IF IsOpen(Cur, h)
              THEN [Send(Cur, h, ClientConnectedMsg) EXCEPT !.pc[w] = "connected_sent"]
              ELSE ClientLoopStart(Cur, w))
  /\ UNCHANGED Endpoint

\* _handle_client_join after CLIENT_CONNECTED: enter _relay_loop_client
ClientLoopEnter(w) ==
  /\ pc[w] = "connected_sent"
  /\ Commit(ClientLoopStart(Cur, w))
  /\ UNCHANGED Endpoint

\* _relay_loop_client resumes from the send to the host
ClientLoopResume(w) ==
  /\ pc[w] = "client_send"
  /\ Commit(ClientRecv(Cur, w))
  /\ UNCHANGED Endpoint

\* _relay_loop_client wakes from recv(): a message, or the connection closed
ClientLoopWake(w) ==
  /\ pc[w] = "client_wait"
  /\ LET c == loop_ws[w] IN
       \/ /\ inbox[c] # <<>>
          /\ Commit(RelayLoopClientBody(Take(Cur, c), w, Head(inbox[c])))
       \/ /\ inbox[c] = <<>>
          /\ closed[c] \/ rclosed[c]
          /\ Commit(ClientExit(Cur, w))
  /\ UNCHANGED Endpoint

\* _close_session resumes from `await session.client_ws.send(notify)`
CloseClientClose(T) ==
  /\ pc[T] = "cs_client_sent"
  /\ Commit(AfterClose(CloseClientCloseStep(Cur, T), T))
  /\ UNCHANGED Endpoint

\* _close_session resumes from `await session.client_ws.close()`
CloseClientClosed(T) ==
  /\ pc[T] = "cs_client_closing"
  /\ Commit(AfterClose(ClosePopClient(Cur, my[T], T), T))
  /\ UNCHANGED Endpoint

\* _close_session resumes from `await session.host_ws.send(notify)`
CloseHostClose(T) ==
  /\ pc[T] = "cs_host_sent"
  /\ Commit(CloseHostCloseStep(Cur, T))
  /\ UNCHANGED Endpoint

\* _close_session resumes from `await session.host_ws.close()`
CloseHostClosed(T) ==
  /\ pc[T] = "cs_host_closing"
  /\ Commit(AfterClose(CloseHostClosedStep(Cur, T), T))
  /\ UNCHANGED Endpoint

\* stop() up to its first suspension
StopBegin ==
  /\ pc[Stopper] = "idle"
  /\ Commit(StopLoop([Cur EXCEPT !.running = FALSE, !.todo = DictKeys(sessions)]))
  /\ UNCHANGED Endpoint

\* stop(): `await self._server.wait_closed()` returns when every handler has
StopDone ==
  /\ pc[Stopper] = "wait_closed"
  /\ \A c \in Conns : pc[c] \in {"new", "done"}
  /\ Commit([Cur EXCEPT !.pc[Stopper] = "stopped"])
  /\ UNCHANGED Endpoint

\* the relay while it serves: stop() is not called
Next ==
  \/ Start
  \/ \E w \in Conns : \E m \in FirstMessages \cup {DataMsg(w, 0), NoMsg} :
       \E gone \in BOOLEAN : Accept(w, m, gone)
  \/ \E w \in Conns : EndpointSend(w)
  \/ \E w \in Conns : EndpointClose(w)
  \/ \E w \in Conns : HostLoopRecv(w)
  \/ \E w \in Conns : HostLoopEnd(w)
  \/ \E w \in Conns : JoinNotifyHost(w)
  \/ \E w \in Conns : ClientLoopEnter(w)
  \/ \E w \in Conns : ClientLoopResume(w)
  \/ \E w \in Conns : ClientLoopWake(w)
  \/ \E T \in Conns : CloseClientClose(T)
  \/ \E T \in Conns : CloseClientClosed(T)

Spec == Init /\ [][Next]_vars

\* the relay with endpoints that also send registration messages late
NextRoles ==
  \/ Next
  \/ \E w \in Conns : \E b0 \in {HOST_REGISTER, CLIENT_JOIN} : EndpointSendLate(w, b0)

SpecRoles == Init /\ [][NextRoles]_vars

\* the relay with stop(): the same steps, and those of the shutdown
NextShutdown ==
  \/ Start
  \/ StopBegin
  \/ StopDone
  \/ \E w \in Conns : \E m \in FirstMessages \cup {DataMsg(w, 0), NoMsg} :
       \E gone \in BOOLEAN : Accept(w, m, gone)
  \/ \E w \in Conns : nsent < MaxDataShutdown /\ EndpointSend(w)
  \/ \E w \in Conns : EndpointClose(w)
  \/ \E w \in Conns : HostLoopRecv(w)
  \/ \E w \in Conns : HostLoopEnd(w)
  \/ \E w \in Conns : JoinNotifyHost(w)
  \/ \E w \in Conns : ClientLoopEnter(w)
  \/ \E w \in Conns : ClientLoopResume(w)
  \/ \E w \in Conns : ClientLoopWake(w)
  \/ \E T \in Tasks : CloseClientClose(T)
  \/ \E T \in Tasks : CloseClientClosed(T)
  \/ \E T \in Tasks : CloseHostClose(T)
  \/ \E T \in Tasks : CloseHostClosed(T)

SpecShutdown == Init /\ [][NextShutdown]_vars

(***************************************************************************)
(* The host agent: RelayHostAgent of relay/host_agent.py.  It runs two     *)
(* coroutines on one event loop, _receive_loop and _stream_loop; a step of *)
(* the model is the code one of them runs between two suspension points.   *)
(***************************************************************************)
\* the members of the enumeration relay.server.RelayMessageType, which
\* host_agent.py and viewer.py import
RelayMessageType ==
  [HOST_REGISTER |-> HOST_REGISTER, HOST_REGISTERED |-> HOST_REGISTERED,
   CLIENT_JOIN |-> CLIENT_JOIN, CLIENT_JOINED |-> CLIENT_JOINED,
   CLIENT_CONNECTED |-> CLIENT_CONNECTED, DISCONNECT |-> DISCONNECT,
   ERROR |-> ERROR, PING |-> 18, PONG |-> 19, RELAY_DATA |-> RELAY_DATA]

\* `RelayMessageType.<name>` evaluates; otherwise it raises AttributeError
HasMember(name) == name \in DOMAIN RelayMessageType

\* a message on the agent's socket: its first byte, and for an Input of
\* common.protocol its event type (0: the bytes do not parse as an Input)
AgentMsg(b0, ev) == [b0 |-> b0, ev |-> ev]

\* 48 stands for the first byte of a control envelope of the peer: the
\* source gives the control tags no value, so it is a byte no member of
\* RelayMessageType has
AgentMessages ==
  { AgentMsg(b, 0) : b \in {-1, CLIENT_CONNECTED, DISCONNECT, ERROR, FRAME, 48} }
    \cup { AgentMsg(INPUT, e) : e \in {0, MOUSE_MOVE, MOUSE_UP, KEY_DOWN} }

AgentCur ==
  [running |-> agent_running, client_connected |-> client_connected,
   control_granted |-> control_granted, callback |-> control_callback,
   requested |-> request_seen,
   recv |-> recv_pc, applied |-> applied]

AgentCommit(ag) ==
  /\ agent_running' = ag.running
  /\ client_connected' = ag.client_connected
  /\ control_granted' = ag.control_granted
  /\ control_callback' = ag.callback
  /\ request_seen' = ag.requested
  /\ recv_pc' = ag.recv
  /\ applied' = ag.applied

\* the agent as start() leaves it, before any message
AgentStarted ==
  [running |-> TRUE, client_connected |-> FALSE, control_granted |-> FALSE,
   callback |-> FALSE, requested |-> FALSE, recv |-> "loop", applied |-> <<>>]

\* _receive_loop ends, by `break`, ConnectionClosed or any other exception:
\* its `finally` clears _running
RecvExit(ag) == [ag EXCEPT !.running = FALSE, !.recv = "done"]

\* _handle_input, with pyautogui installed
handle_input(ag, m) ==
  IF ~ag.control_granted THEN ag
  ELSE LET call == CASE m.ev = MOUSE_MOVE -> <<"moveTo">>
                     [] m.ev = MOUSE_DOWN -> <<"click">>
                     [] m.ev = KEY_DOWN -> <<"press">>
                     [] m.ev = MOUSE_SCROLL -> <<"scroll">>
                     [] OTHER -> <<>>
       IN [ag EXCEPT !.applied = @ \o call]

\* _deny_control, called from _receive_loop: the message is built outside the `try`
deny_control(ag) == IF HasMember("CONTROL_DENIED") THEN ag ELSE RecvExit(ag)

\* the `else` branch of _receive_loop: parse as a message of common.protocol.
\* An Input is applied when control is granted at this moment.
ReceiveProtocol(ag, m) ==
  IF m.b0 = INPUT /\ m.ev # 0
  THEN IF ag.control_granted THEN handle_input(ag, m) ELSE ag
  ELSE ag

\* _receive_loop with a CLIENT_CONNECTED branch that leaves _control_granted alone
ReceiveLoopBody_KeepGrant(ag, m) ==
  IF ~ag.running THEN RecvExit(ag)
  ELSE IF m.b0 = -1 THEN ag
  ELSE IF m.b0 = RelayMessageType.CLIENT_CONNECTED
    THEN [ag EXCEPT !.client_connected = TRUE, !.requested = FALSE]
  ELSE IF m.b0 = RelayMessageType.DISCONNECT
    THEN [ag EXCEPT !.client_connected = FALSE, !.control_granted = FALSE,
                    !.requested = FALSE]
  ELSE IF m.b0 = RelayMessageType.ERROR THEN ag
  ELSE RecvExit(ag)

\* one iteration of `async for message in self._websocket`
ReceiveLoopBody(ag, m) ==
  IF ~ag.running THEN RecvExit(ag)
  ELSE IF m.b0 = -1 THEN ag
  ELSE IF m.b0 = RelayMessageType.CLIENT_CONNECTED
    THEN [ag EXCEPT !.client_connected = TRUE, !.control_granted = FALSE,
                    !.requested = FALSE]
  ELSE IF m.b0 = RelayMessageType.DISCONNECT
    THEN [ag EXCEPT !.client_connected = FALSE, !.control_granted = FALSE,
                    !.requested = FALSE]
  ELSE IF m.b0 = RelayMessageType.ERROR THEN ag
  ELSE IF ~HasMember("REQUEST_CONTROL") THEN RecvExit(ag)
  ELSE IF m.b0 = RelayMessageType.REQUEST_CONTROL
    THEN IF ag.callback THEN [ag EXCEPT !.requested = TRUE]
         ELSE deny_control([ag EXCEPT !.requested = TRUE])
  ELSE IF ~HasMember("CONTROL_REVOKED") THEN RecvExit(ag)
  ELSE IF m.b0 = RelayMessageType.CONTROL_REVOKED
    THEN [ag EXCEPT !.control_granted = FALSE]
  ELSE ReceiveProtocol(ag, m)

\* the agent's flags once it has read all of the messages q, in order
RECURSIVE ReceiveAll(_, _)
ReceiveAll(ag, q) ==
  IF q = <<>> \/ ag.recv = "done" THEN ag
  ELSE ReceiveAll(ReceiveLoopBody(ag, Head(q)), Tail(q))

Max(a, b) == IF a >= b THEN a ELSE b
Min(a, b) == IF a <= b THEN a ELSE b

RECURSIVE Sum(_)
Sum(q) == IF q = <<>> THEN 0 ELSE Head(q) + Sum(Tail(q))

\* PushFrameTime without the pop(0)
PushFrameTime_KeepAll(ft, t) == Append(ft, t)

\* self._frame_times.append(send_time), then drop the oldest beyond the window
PushFrameTime(ft, t) ==
  LET a == Append(ft, t) IN IF Len(a) > FrameWindow THEN Tail(a) ELSE a

\* the adaptive step of _stream_loop; times are in milliseconds and
\* _target_frame_time is 1000 / capture_fps, so that
\*   avg > target * 0.5  iff  sum * 2 * capture_fps > 1000 * len
\*   avg < target * 0.2  iff  sum * 5 * capture_fps < 1000 * len
AdaptQuality(q, ft) ==
  IF Len(ft) >= AdaptAfter
  THEN IF Sum(ft) * 2 * capture_fps > 1000 * Len(ft) THEN Max(min_quality, q - 2)
       ELSE IF Sum(ft) * 5 * capture_fps < 1000 * Len(ft) THEN Min(max_quality, q + 1)
       ELSE q
  ELSE q

AgentFlags == <<agent_running, client_connected, control_granted,
                control_callback, request_seen, recv_pc, applied>>
AgentQuality == <<current_quality, encoder_quality, frame_times, frames_sent,
                  switches>>

\* RelayHostAgent(config), with config.jpeg_quality = q
HostAgentCreate(q) ==
  /\ agent_pc = "none"
  /\ agent_pc' = "created"
  /\ jpeg_quality' = q
  /\ encoder_quality' = q
  /\ current_quality' = q
  /\ UNCHANGED <<AgentFlags, stream_pc, frame_times, frames_sent, switches>>
  /\ UNCHANGED <<RelayVars, ViewerVars, CodecVars, SignalingVars, FrameBufferVars>>

\* set_control_callback(callback)
SetControlCallback ==
  /\ agent_pc # "none"
  /\ control_callback' = TRUE
  /\ UNCHANGED <<agent_pc, jpeg_quality, agent_running, client_connected,
                 control_granted, request_seen, recv_pc, applied, stream_pc,
                 AgentQuality>>
  /\ UNCHANGED <<RelayVars, ViewerVars, CodecVars, SignalingVars, FrameBufferVars>>

\* start(), after connect_to_relay() returned True: both loops become tasks
HostAgentStart ==
  /\ agent_pc = "created"
  /\ agent_pc' = "started"
  /\ agent_running' = TRUE
  /\ recv_pc' = "loop"
  /\ stream_pc' = "top"
  /\ UNCHANGED <<jpeg_quality, client_connected, control_granted,
                 control_callback, request_seen, applied, AgentQuality>>
  /\ UNCHANGED <<RelayVars, ViewerVars, CodecVars, SignalingVars, FrameBufferVars>>

\* stop()
HostAgentStop ==
  /\ agent_pc = "started"
  /\ agent_running
  /\ agent_running' = FALSE
  /\ UNCHANGED <<agent_pc, jpeg_quality, client_connected, control_granted,
                 control_callback, request_seen, recv_pc, applied, stream_pc,
                 AgentQuality>>
  /\ UNCHANGED <<RelayVars, ViewerVars, CodecVars, SignalingVars, FrameBufferVars>>

\* _receive_loop reads the message m
AgentReceive(m) ==
  /\ recv_pc = "loop"
  /\ Len(applied) < MaxApplied
  /\ AgentCommit(ReceiveLoopBody(AgentCur, m))
  /\ UNCHANGED <<agent_pc, jpeg_quality, stream_pc, AgentQuality>>
  /\ UNCHANGED <<RelayVars, ViewerVars, CodecVars, SignalingVars, FrameBufferVars>>

\* the connection to the relay closes under _receive_loop
AgentReceiveClosed ==
  /\ recv_pc = "loop"
  /\ AgentCommit(RecvExit(AgentCur))
  /\ UNCHANGED <<agent_pc, jpeg_quality, stream_pc, AgentQuality>>
  /\ UNCHANGED <<RelayVars, ViewerVars, CodecVars, SignalingVars, FrameBufferVars>>

\* grant_control(): the flag is set, then the message is built
GrantControl ==
  /\ agent_pc # "none"
  /\ control_granted' = TRUE
  /\ UNCHANGED <<agent_pc, jpeg_quality, agent_running, client_connected,
                 control_callback, request_seen, recv_pc, applied, stream_pc,
                 AgentQuality>>
  /\ UNCHANGED <<RelayVars, ViewerVars, CodecVars, SignalingVars, FrameBufferVars>>

\* revoke_control()
RevokeControl ==
  /\ agent_pc # "none"
  /\ control_granted' = FALSE
  /\ UNCHANGED <<agent_pc, jpeg_quality, agent_running, client_connected,
                 control_callback, request_seen, recv_pc, applied, stream_pc,
                 AgentQuality>>
  /\ UNCHANGED <<RelayVars, ViewerVars, CodecVars, SignalingVars, FrameBufferVars>>

\* _stream_loop: `while self._running`, then `if not self._client_connected`
StreamTop ==
  /\ stream_pc = "top"
  /\ stream_pc' = IF ~agent_running THEN "done"
                  ELSE IF ~client_connected THEN "sleep"
                  ELSE "limiter"
  /\ UNCHANGED <<agent_pc, jpeg_quality, AgentFlags, AgentQuality>>
  /\ UNCHANGED <<RelayVars, ViewerVars, CodecVars, SignalingVars, FrameBufferVars>>

\* asyncio.sleep returns: `continue`
StreamSleepDone ==
  /\ stream_pc = "sleep"
  /\ stream_pc' = "top"
  /\ UNCHANGED <<agent_pc, jpeg_quality, AgentFlags, AgentQuality>>
  /\ UNCHANGED <<RelayVars, ViewerVars, CodecVars, SignalingVars, FrameBufferVars>>

\* rate_limiter.wait_async() returns: grab, hand the quality to the encoder,
\* encode, pack, and start sending; a failed grab sleeps and continues
StreamCaptureUpTo(ok, n) ==
  /\ stream_pc = "limiter"
  /\ frames_sent < n
  /\ IF ok
     THEN /\ encoder_quality' = current_quality
          /\ stream_pc' = "send"
     ELSE /\ stream_pc' = "sleep"
          /\ UNCHANGED encoder_quality
  /\ UNCHANGED <<agent_pc, jpeg_quality, AgentFlags, current_quality,
                 frame_times, frames_sent, switches>>
  /\ UNCHANGED <<RelayVars, ViewerVars, CodecVars, SignalingVars, FrameBufferVars>>

StreamCapture(ok) == StreamCaptureUpTo(ok, MaxFrames)

\* `await self._websocket.send(packed)` returns after t milliseconds
StreamSent(t) ==
  /\ stream_pc = "send"
  /\ LET change == frame_times # <<>> /\ frame_times[Len(frame_times)] # t
         ft == PushFrameTime(frame_times, t)
     IN /\ change => switches < MaxSwitch
        /\ switches' = IF change THEN switches + 1 ELSE switches
        /\ frames_sent' = frames_sent + 1
        /\ frame_times' = ft
        /\ current_quality' = AdaptQuality(current_quality, ft)
  /\ stream_pc' = "top"
  /\ UNCHANGED <<agent_pc, jpeg_quality, AgentFlags, encoder_quality>>
  /\ UNCHANGED <<RelayVars, ViewerVars, CodecVars, SignalingVars, FrameBufferVars>>

\* the send raises ConnectionClosed: `break`
StreamSendFailed ==
  /\ stream_pc = "send"
  /\ stream_pc' = "done"
  /\ UNCHANGED <<agent_pc, jpeg_quality, AgentFlags, AgentQuality>>
  /\ UNCHANGED <<RelayVars, ViewerVars, CodecVars, SignalingVars, FrameBufferVars>>

NextHostAgent ==
  \/ \E q \in StartQualities : HostAgentCreate(q)
  \/ SetControlCallback
  \/ HostAgentStart
  \/ HostAgentStop
  \/ \E m \in AgentMessages : AgentReceive(m)
  \/ AgentReceiveClosed
  \/ GrantControl
  \/ RevokeControl
  \/ StreamTop
  \/ StreamSleepDone
  \/ \E ok \in BOOLEAN : StreamCapture(ok)
  \/ \E t \in SendTimes : StreamSent(t)
  \/ StreamSendFailed

SpecHostAgent == Init /\ [][NextHostAgent]_vars

\* the streaming host agent alone, for runs long enough to fill the window
NextStream ==
  \/ \E q \in StartQualities : HostAgentCreate(q)
  \/ HostAgentStart
  \/ AgentReceive(AgentMsg(CLIENT_CONNECTED, 0))
  \/ StreamTop
  \/ StreamSleepDone
  \/ \E ok \in BOOLEAN : StreamCaptureUpTo(ok, MaxFramesWindow)
  \/ \E t \in SendTimes : StreamSent(t)
  \/ StreamSendFailed

SpecStream == Init /\ [][NextStream]_vars

(***************************************************************************)
(* The viewer: RelayViewer of relay/viewer.py.  run() connects, starts     *)
(* receive_loop as a task and then polls the window's events.  A message   *)
(* is modelled by the name of its first byte: a member of RelayMessageType *)
(* as its sender writes it, "FRAME" or "INPUT" of common.protocol, or      *)
(* "EMPTY".                                                                *)
(***************************************************************************)
ViewerMessages ==
  {"EMPTY", "DISCONNECT", "ERROR", "CONTROL_GRANTED", "CONTROL_DENIED",
   "CONTROL_REVOKED", "FRAME", "INPUT"}

\* the window events handle_events distinguishes
ViewerEvents ==
  {"QUIT", "VIDEORESIZE", "K_ESCAPE", "K_F8", "KEYDOWN", "KEYUP", "MOUSEMOTION",
   "MOUSEBUTTONDOWN", "MOUSEBUTTONUP", "MOUSEWHEEL", "ACTIVEEVENT"}

\* the InputEventType handle_events gives an event
EventType(e) ==
  CASE e = "KEYDOWN" -> KEY_DOWN
    [] e = "KEYUP" -> KEY_UP
    [] e = "MOUSEMOTION" -> MOUSE_MOVE
    [] e = "MOUSEBUTTONDOWN" -> MOUSE_DOWN
    [] e = "MOUSEBUTTONUP" -> MOUSE_UP
    [] e = "MOUSEWHEEL" -> MOUSE_SCROLL
    [] OTHER -> 0

\* _scale_mouse_pos
scale_mouse_pos(pos, remote, display) ==
  IF display[1] = 0 \/ display[2] = 0 THEN pos
  ELSE <<(pos[1] * remote[1]) \div display[1], (pos[2] * remote[2]) \div display[2]>>

ViewerCur ==
  [running |-> viewer_running, has_control |-> has_control,
   control_requested |-> control_requested, screen |-> screen,
   remote |-> remote_size, display |-> display_size, recv |-> vrecv_pc,
   pc |-> viewer_pc, out |-> viewer_out]

ViewerCommit(vw) ==
  /\ viewer_running' = vw.running
  /\ has_control' = vw.has_control
  /\ control_requested' = vw.control_requested
  /\ screen' = vw.screen
  /\ remote_size' = vw.remote
  /\ display_size' = vw.display
  /\ vrecv_pc' = vw.recv
  /\ viewer_pc' = vw.pc
  /\ viewer_out' = vw.out

\* receive_loop ends, by `break`, ConnectionClosed or any other exception:
\* its `finally` clears `running`
ViewerRecvExit(vw) == [vw EXCEPT !.running = FALSE, !.recv = "done"]

\* init_display(width, height), at the default scale of 1
init_display(vw, size) ==
  [vw EXCEPT !.remote = size, !.display = size, !.screen = TRUE]

\* on_frame: the first frame opens the window
on_frame(vw, size) == IF ~vw.screen THEN init_display(vw, size) ELSE vw

\* one iteration of `async for message in self._websocket`; `size` is the
\* size of the frame, when the message is one
ViewerReceiveBody(vw, m, size) ==
  IF ~vw.running THEN ViewerRecvExit(vw)
  ELSE IF m = "EMPTY" THEN vw
  ELSE IF m = "DISCONNECT" THEN ViewerRecvExit(vw)
  ELSE IF m = "ERROR" THEN vw
  ELSE IF ~HasMember("CONTROL_GRANTED") THEN ViewerRecvExit(vw)
  ELSE IF m = "CONTROL_GRANTED"
    THEN [vw EXCEPT !.has_control = TRUE, !.control_requested = FALSE]
  ELSE IF ~HasMember("CONTROL_DENIED") THEN ViewerRecvExit(vw)
  ELSE IF m = "CONTROL_DENIED"
    THEN [vw EXCEPT !.has_control = FALSE, !.control_requested = FALSE]
  ELSE IF ~HasMember("CONTROL_REVOKED") THEN ViewerRecvExit(vw)
  ELSE IF m = "CONTROL_REVOKED"
    THEN [vw EXCEPT !.has_control = FALSE, !.control_requested = FALSE]
  ELSE IF m = "FRAME" THEN on_frame(vw, size)
  ELSE vw

\* run()'s `finally`: clear `running`, close the socket
ViewerClose(vw) == [vw EXCEPT !.running = FALSE, !.pc = "closed"]

\* request_control(); an AttributeError leaves handle_events and run()
request_control(vw) ==
  IF vw.has_control THEN vw
  ELSE IF ~HasMember("REQUEST_CONTROL") THEN ViewerClose(vw)
  ELSE [vw EXCEPT !.out = Append(@, [tag |-> "REQUEST_CONTROL", ev |-> 0, pos |-> <<0, 0>>]),
                  !.control_requested = TRUE]

\* send_input(msg)
send_input(vw, msg) ==
  IF vw.has_control THEN [vw EXCEPT !.out = Append(@, msg)] ELSE vw

\* handle_events, for one event; pos is the pointer's position in the window
HandleEvent(vw, e, pos) ==
  IF e \in {"QUIT", "K_ESCAPE"} THEN ViewerClose(vw)
  ELSE IF e = "VIDEORESIZE" THEN [vw EXCEPT !.display = pos]
  ELSE IF e = "K_F8" THEN request_control(vw)
  ELSE IF e = "ACTIVEEVENT" THEN vw
  ELSE IF vw.has_control
    THEN send_input(vw, [tag |-> "INPUT", ev |-> EventType(e),
                         pos |-> IF e \in {"KEYDOWN", "KEYUP"} THEN <<0, 0>>
                                 ELSE scale_mouse_pos(pos, vw.remote, vw.display)])
  ELSE vw

\* run(): connect() succeeded or not; on success receive_loop becomes a task
ViewerRun(ok) ==
  /\ viewer_pc = "none"
  /\ IF ok
     THEN ViewerCommit([ViewerCur EXCEPT !.pc = "main", !.running = TRUE,
                                         !.recv = "loop"])
     ELSE ViewerCommit([ViewerCur EXCEPT !.pc = "closed"])
  /\ UNCHANGED <<RelayVars, HostAgentVars, CodecVars, SignalingVars, FrameBufferVars>>

\* receive_loop reads the message m
ViewerReceive(m, size) ==
  /\ vrecv_pc = "loop"
  /\ ViewerCommit(ViewerReceiveBody(ViewerCur, m, size))
  /\ UNCHANGED <<RelayVars, HostAgentVars, CodecVars, SignalingVars, FrameBufferVars>>

\* the connection closes under receive_loop
ViewerReceiveClosed ==
  /\ vrecv_pc = "loop"
  /\ ViewerCommit(ViewerRecvExit(ViewerCur))
  /\ UNCHANGED <<RelayVars, HostAgentVars, CodecVars, SignalingVars, FrameBufferVars>>

\* init_display(width, height) called on the viewer object
ViewerInitDisplay(size) ==
  /\ viewer_pc = "main"
  /\ ~screen
  /\ ViewerCommit(init_display(ViewerCur, size))
  /\ UNCHANGED <<RelayVars, HostAgentVars, CodecVars, SignalingVars, FrameBufferVars>>

\* run()'s loop: `while self.running`, `if self.screen`, handle_events
ViewerEvent(e, pos) ==
  /\ viewer_pc = "main"
  /\ viewer_running
  /\ screen
  /\ Len(viewer_out) < MaxViewerSent
  /\ ViewerCommit(HandleEvent(ViewerCur, e, pos))
  /\ UNCHANGED <<RelayVars, HostAgentVars, CodecVars, SignalingVars, FrameBufferVars>>

\* run()'s loop finds `running` false
ViewerMainExit ==
  /\ viewer_pc = "main"
  /\ ~viewer_running
  /\ ViewerCommit(ViewerClose(ViewerCur))
  /\ UNCHANGED <<RelayVars, HostAgentVars, CodecVars, SignalingVars, FrameBufferVars>>

NextViewer ==
  \/ \E ok \in BOOLEAN : ViewerRun(ok)
  \/ \E m \in ViewerMessages : \E size \in WindowSizes : ViewerReceive(m, size)
  \/ ViewerReceiveClosed
  \/ \E size \in WindowSizes : ViewerInitDisplay(size)
  \/ \E e \in ViewerEvents : \E pos \in WindowSizes : ViewerEvent(e, pos)
  \/ ViewerMainExit

SpecViewer == Init /\ [][NextViewer]_vars

(***************************************************************************)
(* The application message codec: common/protocol.py.  Bytes are numbers   *)
(* of 0..255, a packed message is a sequence of them.  Field values are    *)
(* kept below 2^31.                                                        *)
(***************************************************************************)
\* struct's big-endian unsigned field of k bytes
RECURSIVE BigEndian(_, _)
BigEndian(n, k) ==
  IF k = 0 THEN <<>> ELSE Append(BigEndian(n \div 256, k - 1), n % 256)

RECURSIVE FromBigEndian(_)
FromBigEndian(b) ==
  IF b = <<>> THEN 0
  ELSE 256 * FromBigEndian(SubSeq(b, 1, Len(b) - 1)) + b[Len(b)]

\* data[a:b] of Python, for 0 <= a
Slice(data, a, b) ==
  IF a >= Len(data) \/ b <= a THEN <<>>
  ELSE SubSeq(data, a + 1, Min(b, Len(data)))

ValueError == [cls |-> "ValueError"]

\* pack_header(msg_type, payload_length), when the clock reads `now`
pack_header(msg_type, payload_length, now) ==
  <<msg_type>> \o BigEndian(now, 8) \o BigEndian(payload_length, 4)

\* unpack_header(data), for data of at least HEADER_SIZE bytes
unpack_header(data) ==
  [msg_type |-> data[1],
   timestamp |-> FromBigEndian(SubSeq(data, 2, 9)),
   payload_length |-> FromBigEndian(SubSeq(data, 10, 13))]

\* FrameMessage.pack
FrameMessage_pack(msg, now) ==
  LET payload == BigEndian(msg.width, 2) \o BigEndian(msg.height, 2)
                   \o BigEndian(msg.frame_number, 4) \o msg.frame_data
  IN pack_header(FRAME, Len(payload), now) \o payload

\* FrameMessage.unpack
FrameMessage_unpack_DropByte(payload) ==
  IF Len(payload) < 8 THEN ValueError
  ELSE [cls |-> "Frame",
        width |-> FromBigEndian(SubSeq(payload, 1, 2)),
        height |-> FromBigEndian(SubSeq(payload, 3, 4)),
        frame_number |-> FromBigEndian(SubSeq(payload, 5, 8)),
        frame_data |-> Slice(payload, 9, Len(payload))]

FrameMessage_unpack(payload) ==
  IF Len(payload) < 8 THEN ValueError
  ELSE [cls |-> "Frame",
        width |-> FromBigEndian(SubSeq(payload, 1, 2)),
        height |-> FromBigEndian(SubSeq(payload, 3, 4)),
        frame_number |-> FromBigEndian(SubSeq(payload, 5, 8)),
        frame_data |-> Slice(payload, 8, Len(payload))]

\* InputMessage.pack; `& 0xFFFF` makes a negative scroll_delta unsigned
InputMessage_pack(msg, now) ==
  LET payload == <<msg.event_type>> \o BigEndian(msg.x, 2) \o BigEndian(msg.y, 2)
                   \o <<msg.button>> \o BigEndian(msg.key_code, 2)
                   \o <<msg.modifiers>>
                   \o BigEndian((msg.scroll_delta + 65536) % 65536, 2)
  IN pack_header(INPUT, Len(payload), now) \o payload

\* InputMessage.unpack: the payload is exactly 11 bytes, and the event type
\* and the button are members of their enumerations
InputMessage_unpack(payload) ==
  IF Len(payload) # 11 THEN ValueError
  ELSE IF payload[1] \notin MOUSE_MOVE..KEY_UP \/ payload[6] \notin 0..2 THEN ValueError
  ELSE [cls |-> "Input",
        event_type |-> payload[1],
        x |-> FromBigEndian(SubSeq(payload, 2, 3)),
        y |-> FromBigEndian(SubSeq(payload, 4, 5)),
        button |-> payload[6],
        key_code |-> FromBigEndian(SubSeq(payload, 7, 8)),
        modifiers |-> payload[9],
        scroll_delta |-> FromBigEndian(SubSeq(payload, 10, 11))]

\* parse_message(data), for the two classes the relay's endpoints exchange
parse_message(data) ==
  IF Len(data) < HEADER_SIZE THEN ValueError
  ELSE LET h == unpack_header(data)
           total_length == HEADER_SIZE + h.payload_length
           payload == Slice(data, HEADER_SIZE, total_length)
       IN IF Len(data) < total_length THEN ValueError
          ELSE IF h.msg_type = FRAME THEN FrameMessage_unpack(payload)
          ELSE IF h.msg_type = INPUT THEN InputMessage_unpack(payload)
          ELSE ValueError

\* message.pack(), by the class of the message
Pack(msg, now) ==
  IF msg.cls = "Frame" THEN FrameMessage_pack(msg, now) ELSE InputMessage_pack(msg, now)

\* the message objects a run encodes
FrameObjects ==
  { [cls |-> "Frame", width |-> w, height |-> w, frame_number |-> n, frame_data |-> d] :
      w \in {0, 1920, 65535}, n \in {0, 1, 16777216},
      d \in {<<>>, <<255>>, <<0, 216>>} }

InputObjects ==
  { [cls |-> "Input", event_type |-> e, x |-> x, y |-> 0, button |-> b,
     key_code |-> k, modifiers |-> 0, scroll_delta |-> sd] :
      e \in {MOUSE_MOVE, MOUSE_SCROLL, KEY_UP}, x \in {0, 65535}, b \in {0, 2},
      k \in {0, 300}, sd \in {-32768, -3, 0, 3, 32767} }

\* the clock advances
ClockTick ==
  /\ clock < MaxClock
  /\ clock' = clock + 1
  /\ UNCHANGED <<codec_pc, wire, decoded, rewire, scrolled>>
  /\ UNCHANGED <<RelayVars, HostAgentVars, ViewerVars, SignalingVars, FrameBufferVars>>

\* a sender packs the message msg
CodecEncode(msg) ==
  /\ codec_pc = "idle"
  /\ wire' = Pack(msg, clock)
  /\ codec_pc' = "encoded"
  /\ UNCHANGED <<clock, decoded, rewire, scrolled>>
  /\ UNCHANGED <<RelayVars, HostAgentVars, ViewerVars, SignalingVars, FrameBufferVars>>

\* the receiver parses the bytes
CodecDecode ==
  /\ codec_pc = "encoded"
  /\ decoded' = parse_message(wire)
  /\ codec_pc' = "decoded"
  /\ UNCHANGED <<clock, wire, rewire, scrolled>>
  /\ UNCHANGED <<RelayVars, HostAgentVars, ViewerVars, SignalingVars, FrameBufferVars>>

\* the receiver packs the message it parsed
CodecReencode ==
  /\ codec_pc = "decoded"
  /\ decoded # ValueError
  /\ rewire' = Pack(decoded, clock)
  /\ codec_pc' = "reencoded"
  /\ UNCHANGED <<clock, wire, decoded, scrolled>>
  /\ UNCHANGED <<RelayVars, HostAgentVars, ViewerVars, SignalingVars, FrameBufferVars>>

\* _handle_input without the fold of the unsigned wire value
scroll_amount_Unsigned(msg) == msg.scroll_delta

\* _handle_input, MOUSE_SCROLL: the amount passed to pyautogui.scroll
scroll_amount(msg) ==
  IF msg.scroll_delta < 32768 THEN msg.scroll_delta ELSE msg.scroll_delta - 65536

\* the host agent applies the scroll event it parsed
HostScroll ==
  /\ codec_pc = "decoded"
  /\ decoded # ValueError
  /\ decoded.cls = "Input"
  /\ decoded.event_type = MOUSE_SCROLL
  /\ scrolled' = scroll_amount(decoded)
  /\ codec_pc' = "applied"
  /\ UNCHANGED <<clock, wire, decoded, rewire>>
  /\ UNCHANGED <<RelayVars, HostAgentVars, ViewerVars, SignalingVars, FrameBufferVars>>

NextCodec ==
  \/ ClockTick
  \/ \E msg \in FrameObjects \cup InputObjects : CodecEncode(msg)
  \/ CodecDecode
  \/ CodecReencode
  \/ HostScroll

SpecCodec == Init /\ [][NextCodec]_vars

(***************************************************************************)
(* The signaling server (src/signaling/server.py) and the session ids and  *)
(* messages of common.protocol it uses.  A request is handled in one step: *)
(* SessionManager's methods hold the lock over code that never suspends,   *)
(* and write_message puts the reply on the socket before it awaits.        *)
(***************************************************************************)
SigConns == 1..NSigConns

\* addr[0] of the connection: each connection comes from its own address
client_ip(c) == c

HostPorts == {9001, 9002}

ErrorCode ==
  [SUCCESS |-> 0, SESSION_NOT_FOUND |-> 1, SESSION_EXPIRED |-> 2,
   INVALID_MESSAGE |-> 3, CONNECTION_REFUSED |-> 4, PROTOCOL_ERROR |-> 5]

\* string.ascii_uppercase + string.digits
valid_chars ==
  <<"A","B","C","D","E","F","G","H","I","J","K","L","M","N","O","P","Q","R","S",
    "T","U","V","W","X","Y","Z","0","1","2","3","4","5","6","7","8","9">>

\* the id of six characters that ends in ch
SessionId(ch) == [i \in 1..6 |-> IF i < 6 THEN "A" ELSE ch]

\* an absent id: the empty string of a REGISTER, and the value that stands
\* for the RuntimeError of _generate_unique_id
NoId == <<>>

\* the session ids a client may put in a request: none, two valid ids, a
\* lower-case id and a short id
RequestIds ==
  {NoId, SessionId("A"), SessionId("B"), SessionId("x"), <<"A", "B", "C">>}

\* generate_session_id(): `length` draws from the alphabet.  The model's
\* random source varies the last character only, over the first RngChars
\* characters.
generate_session_id(length) ==
  { [i \in 1..length |-> IF i < length THEN valid_chars[1] ELSE valid_chars[k]] :
      k \in 1..RngChars }

validate_session_id(session_id) ==
  /\ session_id # NoId
  /\ Len(session_id) = 6
  /\ \A i \in 1..Len(session_id) :
       \E k \in 1..Len(valid_chars) : valid_chars[k] = session_id[i]

\* Session(session_id, host_ip, host_port) created at time now
Session(session_id, host_ip, host_port, now) ==
  [session_id |-> session_id, host_ip |-> host_ip, host_port |-> host_port,
   registered_at |-> now, last_heartbeat |-> now]

is_expired(session, timeout, now) == (now - session.last_heartbeat) > timeout

\* the dictionary with d[k] = v
DictSet(d, k, v) == [x \in DOMAIN d \cup {k} |-> IF x = k THEN v ELSE d[x]]

\* the dictionary after `del d[k]` for each k of ks
DictDel(d, ks) == [x \in DOMAIN d \ ks |-> d[x]]

\* _generate_unique_id: every result the loop can produce, NoId for the
\* RuntimeError raised when each of the 100 draws is taken
generate_unique_id(ss) ==
  LET drawn == generate_session_id(6) IN
  { sid \in drawn : sid \notin DOMAIN ss }
    \cup (IF \E sid \in drawn : sid \in DOMAIN ss THEN {NoId} ELSE {})

RegisterResult(ss, raised, success, session_id, error_code) ==
  [sessions |-> ss, raised |-> raised, success |-> success,
   session_id |-> session_id, error_code |-> error_code]

\* SessionManager.register that registers the requested id even when taken
SessionManager_register_Overwrite(ss, now, host_ip, host_port, session_id) ==
  IF Cardinality(DOMAIN ss) >= max_sessions
  THEN {RegisterResult(ss, FALSE, FALSE, NoId, ErrorCode.CONNECTION_REFUSED)}
  ELSE IF session_id # NoId /\ ~validate_session_id(session_id)
  THEN {RegisterResult(ss, FALSE, FALSE, NoId, ErrorCode.INVALID_MESSAGE)}
  ELSE LET ids == IF session_id # NoId THEN {session_id}
                  ELSE generate_unique_id(ss)
       IN { IF sid = NoId
            THEN RegisterResult(ss, TRUE, FALSE, NoId, ErrorCode.SUCCESS)
            ELSE RegisterResult(DictSet(ss, sid, Session(sid, host_ip, host_port, now)),
                                FALSE, TRUE, sid, ErrorCode.SUCCESS) : sid \in ids }

\* SessionManager.register: every outcome, as the table it leaves and the
\* tuple it returns, or the RuntimeError it raises
SessionManager_register(ss, now, host_ip, host_port, session_id) ==
  IF Cardinality(DOMAIN ss) >= max_sessions
  THEN {RegisterResult(ss, FALSE, FALSE, NoId, ErrorCode.CONNECTION_REFUSED)}
  ELSE IF session_id # NoId /\ ~validate_session_id(session_id)
  THEN {RegisterResult(ss, FALSE, FALSE, NoId, ErrorCode.INVALID_MESSAGE)}
  ELSE LET ids == IF session_id # NoId /\ session_id \notin DOMAIN ss
                  THEN {session_id}
                  ELSE generate_unique_id(ss)
       IN { IF sid = NoId
            THEN RegisterResult(ss, TRUE, FALSE, NoId, ErrorCode.SUCCESS)
            ELSE RegisterResult(DictSet(ss, sid, Session(sid, host_ip, host_port, now)),
                                FALSE, TRUE, sid, ErrorCode.SUCCESS) : sid \in ids }

\* SessionManager.lookup returning the first session of the table, whatever
\* id was asked for
SessionManager_lookup_Any(ss, now, session_id) ==
  IF DOMAIN ss = {}
  THEN [sessions |-> ss, success |-> FALSE, session |-> NoId,
        error_code |-> ErrorCode.SESSION_NOT_FOUND]
  ELSE [sessions |-> ss, success |-> TRUE,
        session |-> ss[CHOOSE x \in DOMAIN ss : TRUE],
        error_code |-> ErrorCode.SUCCESS]

\* SessionManager.lookup: the table it leaves and the tuple it returns
SessionManager_lookup(ss, now, session_id) ==
  IF ~validate_session_id(session_id)
  THEN [sessions |-> ss, success |-> FALSE, session |-> NoId,
        error_code |-> ErrorCode.INVALID_MESSAGE]
  ELSE IF session_id \notin DOMAIN ss
  THEN [sessions |-> ss, success |-> FALSE, session |-> NoId,
        error_code |-> ErrorCode.SESSION_NOT_FOUND]
  ELSE IF is_expired(ss[session_id], session_timeout, now)
  THEN [sessions |-> DictDel(ss, {session_id}), success |-> FALSE,
        session |-> NoId, error_code |-> ErrorCode.SESSION_EXPIRED]
  ELSE [sessions |-> ss, success |-> TRUE, session |-> ss[session_id],
        error_code |-> ErrorCode.SUCCESS]

\* SessionManager.heartbeat: the table after session.refresh()
SessionManager_heartbeat(ss, now, session_id) ==
  IF session_id \in DOMAIN ss
  THEN [ss EXCEPT ![session_id].last_heartbeat = now]
  ELSE ss

\* SessionManager.cleanup_expired
SessionManager_cleanup_expired(ss, now) ==
  DictDel(ss, { sid \in DOMAIN ss : is_expired(ss[sid], session_timeout, now) })

RegisterAckMessage(success, session_id, error_code) ==
  [cls |-> "RegisterAckMessage", success |-> success,
   session_id |-> session_id, error_code |-> error_code]

\* host_ip and host_port are None (0 here) in a response that carries no host
LookupResponseMessage(success, session_id, host_ip, host_port, error_code) ==
  [cls |-> "LookupResponseMessage", success |-> success,
   session_id |-> session_id, host_ip |-> host_ip, host_port |-> host_port,
   error_code |-> error_code]

HeartbeatAckMessage(session_id) ==
  [cls |-> "HeartbeatAckMessage", session_id |-> session_id]

ErrorMessage(error_code) == [cls |-> "ErrorMessage", error_code |-> error_code]

\* _handle_lookup reporting every failure as SESSION_EXPIRED
handle_lookup_Expired(r, session_id) ==
  IF r.success
  THEN LookupResponseMessage(TRUE, r.session.session_id, r.session.host_ip,
                             r.session.host_port, ErrorCode.SUCCESS)
  ELSE LookupResponseMessage(FALSE, session_id, None, None,
                             ErrorCode.SESSION_EXPIRED)

\* the response _handle_lookup builds from the result r of lookup()
handle_lookup(r, session_id) ==
  IF r.success
  THEN LookupResponseMessage(TRUE, r.session.session_id, r.session.host_ip,
                             r.session.host_port, ErrorCode.SUCCESS)
  ELSE LookupResponseMessage(FALSE, session_id, None, None, r.error_code)

\* write_message(writer, msg) on connection c
SigWrite(c, msg) == sig_reply' = [to |-> c, msg |-> msg]

\* asyncio.start_server accepts a connection and starts _handle_client
SigConnect(c) ==
  /\ sig_conn[c] # "open"
  /\ sig_conn' = [sig_conn EXCEPT ![c] = "open"]
  /\ UNCHANGED <<sig_sessions, sig_now, sig_reply, asked_taken>>
  /\ UNCHANGED <<RelayVars, HostAgentVars, ViewerVars, CodecVars, FrameBufferVars>>

\* _handle_client reads a REGISTER: _handle_register.  A RuntimeError of the
\* id generator leaves through `except Exception` and closes the connection
SigRegisterStep(c, session_id, host_port) ==
  /\ sig_conn[c] = "open"
  /\ \E r \in SessionManager_register(sig_sessions, sig_now, client_ip(c),
                                      host_port, session_id) :
       /\ sig_sessions' = r.sessions
       /\ IF r.raised
          THEN /\ sig_conn' = [sig_conn EXCEPT ![c] = "closed"]
               /\ UNCHANGED sig_reply
          ELSE /\ SigWrite(c, RegisterAckMessage(r.success, r.session_id, r.error_code))
               /\ UNCHANGED sig_conn
  /\ UNCHANGED sig_now
  /\ UNCHANGED <<RelayVars, HostAgentVars, ViewerVars, CodecVars, FrameBufferVars>>

SigRegister(c, session_id, host_port) ==
  /\ SigRegisterStep(c, session_id, host_port)
  /\ UNCHANGED asked_taken

\* the same step, noting whether the id asked for was registered
SigRegisterNoted(c, session_id, host_port) ==
  /\ SigRegisterStep(c, session_id, host_port)
  /\ asked_taken' = (session_id \in DOMAIN sig_sessions)

\* _handle_client reads a LOOKUP: _handle_lookup
SigLookup(c, session_id) ==
  /\ sig_conn[c] = "open"
  /\ LET r == SessionManager_lookup(sig_sessions, sig_now, session_id) IN
       /\ sig_sessions' = r.sessions
       /\ SigWrite(c, handle_lookup(r, session_id))
  /\ UNCHANGED <<sig_now, sig_conn, asked_taken>>
  /\ UNCHANGED <<RelayVars, HostAgentVars, ViewerVars, CodecVars, FrameBufferVars>>

\* _handle_client reads a HEARTBEAT: _handle_heartbeat acknowledges it
\* whether or not the session exists
SigHeartbeat(c, session_id) ==
  /\ sig_conn[c] = "open"
  /\ sig_sessions' = SessionManager_heartbeat(sig_sessions, sig_now, session_id)
  /\ SigWrite(c, HeartbeatAckMessage(session_id))
  /\ UNCHANGED <<sig_now, sig_conn, asked_taken>>
  /\ UNCHANGED <<RelayVars, HostAgentVars, ViewerVars, CodecVars, FrameBufferVars>>

\* _handle_client reads a message of another class of common.protocol:
\* the `else` of _handle_message
SigUnexpected(c) ==
  /\ sig_conn[c] = "open"
  /\ SigWrite(c, ErrorMessage(ErrorCode.PROTOCOL_ERROR))
  /\ UNCHANGED <<sig_sessions, sig_now, sig_conn, asked_taken>>
  /\ UNCHANGED <<RelayVars, HostAgentVars, ViewerVars, CodecVars, FrameBufferVars>>

\* the client closes, the 60 s read times out, or the bytes read do not
\* decode (unpack_header or unpack raises): the loop ends, `finally` closes
SigClose(c) ==
  /\ sig_conn[c] = "open"
  /\ sig_conn' = [sig_conn EXCEPT ![c] = "closed"]
  /\ UNCHANGED <<sig_sessions, sig_now, sig_reply, asked_taken>>
  /\ UNCHANGED <<RelayVars, HostAgentVars, ViewerVars, CodecVars, FrameBufferVars>>

\* one round of _cleanup_loop
SigCleanup ==
  /\ sig_sessions' = SessionManager_cleanup_expired(sig_sessions, sig_now)
  /\ UNCHANGED <<sig_now, sig_conn, sig_reply, asked_taken>>
  /\ UNCHANGED <<RelayVars, HostAgentVars, ViewerVars, CodecVars, FrameBufferVars>>

\* a second passes
SigTick ==
  /\ sig_now < MaxSigClock
  /\ sig_now' = sig_now + 1
  /\ UNCHANGED <<sig_sessions, sig_conn, sig_reply, asked_taken>>
  /\ UNCHANGED <<RelayVars, HostAgentVars, ViewerVars, CodecVars, FrameBufferVars>>

NextSignaling ==
  \/ \E c \in SigConns : SigConnect(c)
  \/ \E c \in SigConns, sid \in RequestIds, p \in HostPorts : SigRegister(c, sid, p)
  \/ \E c \in SigConns, sid \in RequestIds : SigLookup(c, sid)
  \/ \E c \in SigConns, sid \in RequestIds : SigHeartbeat(c, sid)
  \/ \E c \in SigConns : SigUnexpected(c)
  \/ \E c \in SigConns : SigClose(c)
  \/ SigCleanup
  \/ SigTick

SpecSignaling == Init /\ [][NextSignaling]_vars

\* registration alone, with the history of the id asked for
NextRegister ==
  \/ \E c \in SigConns : SigConnect(c)
  \/ \E c \in SigConns, sid \in RequestIds, p \in HostPorts : SigRegisterNoted(c, sid, p)
  \/ \E c \in SigConns : SigClose(c)
  \/ SigCleanup
  \/ SigTick

SpecRegister == Init /\ [][NextRegister]_vars

(***************************************************************************)
(* The viewer's frame buffer: FrameBuffer of client/decoder.py.  A frame   *)
(* is modelled by its frame number.                                        *)
(***************************************************************************)
\* FrameBuffer(): the default max_size
max_size == 3

\* list.insert(idx, x), idx counted from 0
ListInsert(q, idx, x) == SubSeq(q, 1, idx) \o <<x>> \o SubSeq(q, idx + 1, Len(q))

\* `while len(self._frames) > self.max_size: self._frames.pop(0)`
RECURSIVE DropOldest(_)
DropOldest(q) == IF Len(q) > max_size THEN DropOldest(Tail(q)) ELSE q

\* FrameBuffer.add dropping from the end of the list instead
FrameBuffer_add_DropNewest(frames, n) ==
  LET later == { i \in 1..Len(frames) : frames[i] > n }
      insert_idx == IF later = {} THEN Len(frames)
                    ELSE (CHOOSE i \in later : \A j \in later : i <= j) - 1
      q == ListInsert(frames, insert_idx, n)
  IN IF Len(q) > max_size THEN SubSeq(q, 1, max_size) ELSE q

\* FrameBuffer.add: insert before the first frame with a greater number,
\* then drop from the front while the list is longer than max_size
FrameBuffer_add(frames, n) ==
  LET later == { i \in 1..Len(frames) : frames[i] > n }
      insert_idx == IF later = {} THEN Len(frames)
                    ELSE (CHOOSE i \in later : \A j \in later : i <= j) - 1
  IN DropOldest(ListInsert(frames, insert_idx, n))

\* the result of a get: the list and _last_displayed_frame it leaves, and
\* the frame returned (<<>> for None)
GetResult(frames, last, ret) == [frames |-> frames, last |-> last, ret |-> ret]

\* FrameBuffer.get_next: the first frame with a number above the last displayed
FrameBuffer_get_next(frames, last) ==
  LET newer == { i \in 1..Len(frames) : frames[i] > last } IN
  IF newer = {} THEN GetResult(frames, last, <<>>)
  ELSE LET i == CHOOSE k \in newer : \A j \in newer : k <= j
       IN GetResult(frames, frames[i], <<frames[i]>>)

\* FrameBuffer.get_latest: the frame with the greatest number; frames with a
\* smaller number are cleared
FrameBuffer_get_latest(frames, last) ==
  IF frames = <<>> THEN GetResult(frames, last, <<>>)
  ELSE LET latest == CHOOSE n \in { frames[i] : i \in 1..Len(frames) } :
                       \A i \in 1..Len(frames) : frames[i] <= n
           AtLeast(n) == n >= latest
       IN GetResult(SelectSeq(frames, AtLeast), latest, <<latest>>)

\* the caller's record of a returned frame
Returned(op, r) ==
  IF r.ret = <<>> THEN fb_returned
  ELSE Append(fb_returned, [op |-> op, n |-> r.ret[1]])

\* frame_buffer.add(frame), the frame carrying the number n
FbAdd(n) ==
  /\ fb_frames' = FrameBuffer_add(fb_frames, n)
  /\ UNCHANGED <<fb_last, fb_returned>>
  /\ UNCHANGED <<RelayVars, HostAgentVars, ViewerVars, CodecVars, SignalingVars>>

\* frame_buffer.get_next()
FbGetNext ==
  /\ Len(fb_returned) < MaxReturned
  /\ LET r == FrameBuffer_get_next(fb_frames, fb_last) IN
       /\ fb_frames' = r.frames
       /\ fb_last' = r.last
       /\ fb_returned' = Returned("get_next", r)
  /\ UNCHANGED <<RelayVars, HostAgentVars, ViewerVars, CodecVars, SignalingVars>>

\* frame_buffer.get_latest()
FbGetLatest ==
  /\ Len(fb_returned) < MaxReturned
  /\ LET r == FrameBuffer_get_latest(fb_frames, fb_last) IN
       /\ fb_frames' = r.frames
       /\ fb_last' = r.last
       /\ fb_returned' = Returned("get_latest", r)
  /\ UNCHANGED <<RelayVars, HostAgentVars, ViewerVars, CodecVars, SignalingVars>>

NextFrameBuffer ==
  \/ \E n \in 0..MaxFrameNo : FbAdd(n)
  \/ FbGetNext
  \/ FbGetLatest

SpecFrameBuffer == Init /\ [][NextFrameBuffer]_vars

(***************************************************************************)
(* Vocabulary of the properties.                                           *)
(***************************************************************************)
Range(q) == { q[i] : i \in 1..Len(q) }

IsPrefix(a, b) == Len(a) <= Len(b) /\ a = SubSeq(b, 1, Len(a))

RECURSIVE IsSubseq(_, _)
IsSubseq(a, b) ==
  IF a = <<>> THEN TRUE
  ELSE IF b = <<>> THEN FALSE
  ELSE IF Head(a) = Head(b) THEN IsSubseq(Tail(a), Tail(b))
  ELSE IsSubseq(a, Tail(b))

\* the forwarded messages in q that endpoint w sent
DataFrom(q, w) == SelectSeq(q, LAMBDA m : m.b0 = RELAY_DATA /\ m.src = w)

\* the forwarded messages in q
DataIn(q) == SelectSeq(q, LAMBDA m : m.b0 = RELAY_DATA)

\* session object s is the registry's record of some code
InRegistry(s) == \E i \in 1..Len(sessions) : sessions[i].sid = s

\* connection h registered a session
IsHost(h) == h \in DOMAIN sess

\* connection v was sent CLIENT_JOINED (for the session my[v])
Joined(v) ==
  /\ v \notin DOMAIN sess
  /\ my[v] # None
  /\ \E i \in 1..Len(out[v]) : out[v][i].b0 = CLIENT_JOINED

\* the transport of connection c is open
Open(c) == IsOpen(Cur, c)

\* host h is in its forward loop with its transport open
Serving(h) == IsHost(h) /\ pc[h] = "host_loop" /\ Open(h)

(***************************************************************************)
(* C1.  When the viewer transport of a paired session closes while the     *)
(* host remains, the relay clears the viewer slot, keeps the session in    *)
(* the registry and sends the host DISCONNECT {"message": "Client          *)
(* disconnected"}.  Stated of the state in which the viewer's coroutine    *)
(* has finished: the code does not send the DISCONNECT.                    *)
(***************************************************************************)
C1_ViewerDropNotifiesHost ==
  \A v \in Conns :
    (Joined(v) /\ closed[v] /\ pc[v] = "done" /\ Serving(my[v])) =>
      /\ sess[my[v]].client_ws # v
      /\ InRegistry(my[v])
      /\ ClientDisconnectedMsg \in Range(out[my[v]])

(***************************************************************************)
(* C2.  Every session in the registry has exactly one host transport,      *)
(* which never changes while the session lives, and at most one viewer     *)
(* transport; no transport is the host or viewer of two sessions at once.  *)
(***************************************************************************)
Members(s) == {sess[s].host_ws, sess[s].client_ws} \ {None}

C2_State ==
  \A i \in 1..Len(sessions) :
    LET s == sessions[i].sid IN
      /\ s \in DOMAIN sess
      /\ sess[s].host_ws \in Conns
      /\ sess[s].client_ws \in Conns \cup {None}
      /\ sess[s].client_ws # sess[s].host_ws
      /\ \A j \in 1..Len(sessions) :
           j # i => Members(s) \cap Members(sessions[j].sid) = {}

C2_Step ==
  /\ \A s \in DOMAIN sess : s \in DOMAIN sess' /\ sess'[s].host_ws = sess[s].host_ws
  /\ \A c \in Codes(sessions) \cap Codes(sessions') :
       Lookup(sessions', c) = Lookup(sessions, c)

C2_OneHostOneViewer == [][C2_State /\ C2_State' /\ C2_Step]_vars

C2_Witness ==
  /\ Len(sessions) = 2
  /\ \E i \in 1..2 : sess[sessions[i].sid].client_ws # None

(***************************************************************************)
(* C3.  A CLIENT_JOIN whose normalized code names a session that already   *)
(* has a viewer is answered with ERROR {"error": "Session already has a    *)
(* client connected"} on the joining connection only (if that connection   *)
(* is still open), and the connection is closed; sessions, slots, the      *)
(* registry and what every other endpoint has received are unchanged.      *)
(***************************************************************************)
TakenError == ErrorMsg("Session already has a client connected", NoCode, 0)

C3_Case(raw) ==
  /\ normalize_code(raw) \in Codes(sessions)
  /\ sess[Lookup(sessions, normalize_code(raw))].client_ws # None

\* the rejection of a join to a taken session, answered with message err
C3_Rejected(err) ==
  \A w \in Conns : \A raw \in JoinInputs : \A gone \in BOOLEAN :
    (pc[w] = "new" /\ C3_Case(raw) /\ Accept(w, JoinMsg(raw), gone)) =>
      /\ out'[w] = IF gone THEN <<>> ELSE <<err>>
      /\ pc'[w] = "done" /\ rclosed'[w]
      /\ sessions' = sessions /\ sess' = sess /\ ws_to_session' = ws_to_session
      /\ \A c \in Conns \ {w} :
           out'[c] = out[c] /\ pc'[c] = pc[c] /\ rclosed'[c] = rclosed[c]
             /\ inbox'[c] = inbox[c]

NotFoundError(code) == ErrorMsg("Session not found: ", code, 0)

C4_Case(raw) ==
  /\ normalize_code(raw) # <<>>
  /\ normalize_code(raw) \notin Codes(sessions)

\* the rejection of a join to an unknown code, answered with message text X
C4_Rejected(text) ==
  \A w \in Conns : \A raw \in JoinInputs : \A gone \in BOOLEAN :
    (pc[w] = "new" /\ C4_Case(raw) /\ Accept(w, JoinMsg(raw), gone)) =>
      /\ out'[w] = IF gone THEN <<>>
                   ELSE <<ErrorMsg(text, normalize_code(raw), 0)>>
      /\ pc'[w] = "done" /\ rclosed'[w]
      /\ sessions' = sessions /\ sess' = sess /\ ws_to_session' = ws_to_session

HostGoneMsg == CloseNotifyMsg("Host disconnected")

C5_HostDropClosesViewers ==
  \A h \in Conns :
    (IsHost(h) /\ closed[h] /\ pc[h] = "done") =>
      /\ ~InRegistry(h)
      /\ \A v \in Conns :
           (Joined(v) /\ my[v] = h /\ ~closed[v] /\ pc[v] = "client_wait") =>
             HostGoneMsg \in Range(out[v]) /\ rclosed[v]

(***************************************************************************)
(* C6.  A session is in the registry iff the host that registered it is    *)
(* live: it is there only after a successful HOST_REGISTER, it stays while *)
(* the host's forward loop runs (unless the relay is shutting down), and   *)
(* it is gone once the host's coroutine has finished.                      *)
(***************************************************************************)
C6_RegistryIffHostLive ==
  /\ \A i \in 1..Len(sessions) :
       LET h == sessions[i].sid IN
         /\ IsHost(h) /\ sess[h].host_ws = h
         /\ sess[h].session_code = sessions[i].code
         /\ pc[h] = "host_loop"
         /\ out[h] # <<>> /\ out[h][1] = HostRegisteredMsg(sessions[i].code)
  /\ \A h \in Conns :
       (IsHost(h) /\ pc[h] = "host_loop" /\ running) => InRegistry(h)

C6_Witness ==
  \E h \in Conns : \E g \in Conns :
    /\ IsHost(h) /\ pc[h] = "done" /\ ~InRegistry(h)
    /\ IsHost(g) /\ pc[g] = "host_loop" /\ InRegistry(g)

(***************************************************************************)
(* C7.  Registration never assigns a code that is in the registry: two     *)
(* live sessions never share a code, and the registry's record of a live   *)
(* session is never replaced by a later registration.                      *)
(***************************************************************************)
C7_CodesUnique ==
  /\ \A i, j \in 1..Len(sessions) : sessions[i].code = sessions[j].code => i = j
  /\ \A h \in Conns :
       (IsHost(h) /\ pc[h] = "host_loop") =>
         /\ sess[h].session_code \in Codes(sessions)
         /\ Lookup(sessions, sess[h].session_code) = h
         /\ \A g \in Conns :
              (IsHost(g) /\ pc[g] = "host_loop" /\ g # h) =>
                sess[g].session_code # sess[h].session_code

C7_Witness ==
  \E h, g \in Conns :
    /\ h # g /\ Serving(h) /\ Serving(g)
    /\ InRegistry(h) /\ InRegistry(g)

(***************************************************************************)
(* C8.  After a viewer's drop has been processed for a session whose host  *)
(* is live, a new viewer that joined with the same code gets forwarding    *)
(* again: every message read from the host is delivered to it.  The code   *)
(* drops host messages for a connected new viewer once the earlier         *)
(* viewer's cleanup has cleared the slot.                                  *)
(***************************************************************************)
C8_ForwardingResumes ==
  [][\A h \in Conns : \A v \in Conns :
       ( /\ HostLoopRecv(h)
         /\ Open(h)
         /\ Joined(v) /\ my[v] = h /\ Open(v) /\ pc[v] = "client_wait"
         /\ \E a \in Conns \ {v, h} : my[a] = h /\ closed[a] )
       => out'[v] = Append(out[v], Head(inbox[h]))]_vars

(***************************************************************************)
(* C9.  Within one direction of one session messages are delivered         *)
(* unmodified and in the order read, each before the next is read: what    *)
(* the host has been sent of a viewer's messages is what the forward loop  *)
(* read from that viewer (all of it while the host's transport is open),   *)
(* and what a viewer has been sent is an in-order subsequence of what was  *)
(* read from the host.                                                     *)
(***************************************************************************)
C9_OrderedVerbatim ==
  /\ \A v \in Conns :
       (~IsHost(v) /\ my[v] # None) =>
         LET h == my[v] IN
           /\ IsPrefix(DataFrom(out[h], v), rd[v])
           /\ Open(h) => DataFrom(out[h], v) = rd[v]
           /\ IsSubseq(DataIn(out[v]), rd[h])
  /\ \A h \in Conns :
       IsHost(h) => \A m \in Range(DataIn(out[h])) : m.src # h /\ my[m.src] = h
  /\ \A c \in Conns : (~IsHost(c) /\ my[c] = None) => DataIn(out[c]) = <<>>

C9_Witness ==
  \E v \in Conns :
    /\ ~IsHost(v) /\ my[v] # None
    /\ Len(rd[v]) = 2 /\ DataFrom(out[my[v]], v) = rd[v]

(***************************************************************************)
(* C10.  A message read from the host while no viewer is attached is       *)
(* discarded, not queued: a viewer never receives a host message that was  *)
(* read before it was attached, and the discarding step changes nothing    *)
(* but the host's input queue.                                             *)
(***************************************************************************)
C10_NoReplay ==
  \A v \in Conns :
    (~IsHost(v) /\ my[v] # None) =>
      \A i \in 1..mark[v] : rd[my[v]][i] \notin Range(out[v])

C10_DiscardStep ==
  \A h \in Conns :
    (HostLoopRecv(h) /\ sess[my[h]].client_ws = None) =>
      /\ sessions' = sessions /\ sess' = sess /\ ws_to_session' = ws_to_session
      /\ out' = out /\ pc' = pc /\ rclosed' = rclosed
      /\ inbox' = [inbox EXCEPT ![h] = Tail(@)]

C10_DiscardedNotQueued == [][C10_NoReplay /\ C10_NoReplay' /\ C10_DiscardStep]_vars

C10_Witness ==
  \E v \in Conns :
    /\ Joined(v) /\ mark[v] >= 1
    /\ DataIn(out[v]) # <<>>

(***************************************************************************)
(* C11.  On a successful CLIENT_JOIN the viewer is sent exactly one        *)
(* CLIENT_JOINED carrying the session code, and the relay forwards none of *)
(* the viewer's messages to the host before it has sent the host that      *)
(* viewer's CLIENT_CONNECTED.  The code forwards a new viewer's messages   *)
(* from an earlier viewer's loop while the new viewer's CLIENT_CONNECTED   *)
(* is still to be sent.                                                    *)
(***************************************************************************)
C11_ConnectedBeforeForwarding ==
  \A v \in Conns :
    Joined(v) =>
      /\ SelectSeq(out[v], LAMBDA m : m.b0 = CLIENT_JOINED)
           = <<ClientJoinedMsg(sess[my[v]].session_code)>>
      /\ pc[v] = "joined_sent" => DataFrom(out[my[v]], v) = <<>>

(***************************************************************************)
(* C12.  When the allocator finds no free code in its 100 attempts, the    *)
(* HOST_REGISTER is answered with ERROR on the registering connection (if  *)
(* it is still open) and no entry for the connection is left in either     *)
(* registry map.  The code leaves no entry, but sends no ERROR.            *)
(***************************************************************************)
C12_AllocFailureAnswered ==
  [][\A w \in Conns : \A gone \in BOOLEAN :
       (pc[w] = "new" /\ Accept(w, RegisterMsg, gone) /\ w \notin DOMAIN sess') =>
         /\ ~gone => \E i \in 1..Len(out'[w]) : out'[w][i].b0 = ERROR
         /\ w \notin DOMAIN ws_to_session'
         /\ sessions' = sessions]_vars

(***************************************************************************)
(* C13.  A first message that is empty, or whose first byte is neither     *)
(* HOST_REGISTER nor CLIENT_JOIN, is answered with one ERROR on that       *)
(* connection (if it is still open) and the connection is closed; no       *)
(* session is created, nothing is attached, both registry maps are         *)
(* unchanged.                                                              *)
(***************************************************************************)
C13_Case(m) == m.b0 \notin {HOST_REGISTER, CLIENT_JOIN} /\ m # NoMsg

C13_BadFirstMessageRejected ==
  [][\A w \in Conns : \A m \in {EmptyMsg, DataMsg(w, 0)} : \A gone \in BOOLEAN :
       (pc[w] = "new" /\ C13_Case(m) /\ Accept(w, m, gone)) =>
         /\ IF gone THEN out'[w] = <<>>
            ELSE Len(out'[w]) = 1 /\ out'[w][1].b0 = ERROR /\ out'[w][1].key = "error"
         /\ pc'[w] = "done" /\ rclosed'[w]
         /\ sessions' = sessions /\ sess' = sess /\ ws_to_session' = ws_to_session
         /\ \A c \in Conns \ {w} : out'[c] = out[c]]_vars

C13_Witness ==
  \E w \in Conns :
    /\ pc[w] = "done"
    /\ out[w] = <<ErrorMsg("Expected HOST_REGISTER or CLIENT_JOIN, got ", NoCode, RELAY_DATA)>>
    /\ \E v \in Conns : pc[v] = "done" /\ out[v] = <<ErrorMsg("Empty message", NoCode, 0)>>
    /\ sessions # <<>>

(***************************************************************************)
(* C19.  The two registry maps agree in every state a coroutine can        *)
(* observe: every transport in the transport-to-code map maps to a code    *)
(* in the code-to-session map and is that session's host or its current    *)
(* viewer, and the host and the attached viewer of every session in the    *)
(* registry are in the transport-to-code map.  The code updates the maps   *)
(* and the slot in separate steps, with suspension points between them.    *)
(***************************************************************************)
C19_MapsConsistent ==
  /\ \A w \in DOMAIN ws_to_session :
       /\ ws_to_session[w] \in Codes(sessions)
       /\ w \in Members(Lookup(sessions, ws_to_session[w]))
  /\ \A i \in 1..Len(sessions) :
       \A w \in Members(sessions[i].sid) :
         w \in DOMAIN ws_to_session /\ ws_to_session[w] = sessions[i].code

(***************************************************************************)
(* C20.  While the host and a joined viewer of a session both stay         *)
(* connected with both forward loops running, every message read from      *)
(* either side is forwarded to the other: a loop forwards a message in the *)
(* iteration that read it, so what has been read since the viewer attached *)
(* has been delivered.  The code discards host messages for a connected    *)
(* viewer once an earlier viewer's cleanup has cleared the slot.           *)
(***************************************************************************)
C20_BothDirectionsProgress ==
  \A v \in Conns :
    (Joined(v) /\ pc[v] = "client_wait" /\ Open(v) /\ Serving(my[v])) =>
      /\ \A i \in (mark[v] + 1)..Len(rd[my[v]]) : rd[my[v]][i] \in Range(out[v])
      /\ \A i \in 1..Len(rd[v]) : rd[v][i] \in Range(out[my[v]])

(***************************************************************************)
(* C14: the host agent applies a received Input only if control_granted is *)
(* true when the Input is processed, and an Input received while the flag  *)
(* is false is dropped with no effect: the step of _receive_loop that      *)
(* reads it leaves the agent as it was, both loops still running.          *)
(***************************************************************************)
C14_InputGatedOrDropped ==
  [][\A m \in AgentMessages :
       (m.b0 = INPUT /\ m.ev # 0 /\ agent_running /\ AgentReceive(m)) =>
         /\ applied' # applied => control_granted
         /\ ~control_granted => UNCHANGED HostAgentVars]_vars

(***************************************************************************)
(* C17: whatever --quality between 1 and 100 the agent was started with,   *)
(* the quality _stream_loop hands to the encoder for a frame is never      *)
(* below min_quality nor above max_quality.                                *)
(***************************************************************************)
C17_EncoderQualityInRange ==
  (stream_pc = "send" /\ jpeg_quality \in 1..100) =>
    (min_quality <= encoder_quality /\ encoder_quality <= max_quality)

(***************************************************************************)
(* C16: after the viewer of a paired session has dropped while the host    *)
(* remains, the session is unpaired again: the viewer slot is empty, and   *)
(* the host agent's paired flag is cleared, so that it streams no frame    *)
(* until a new CLIENT_CONNECTED is delivered to it.  Stated of the agent   *)
(* that has read, in order, everything the relay has sent it after the     *)
(* HOST_REGISTERED that connect_to_relay() consumes: if its loops still    *)
(* run, _client_connected is false.                                        *)
(***************************************************************************)
C16_HostAgentUnpaired ==
  \A v \in Conns :
    ( /\ Joined(v) /\ pc[v] = "done"
      /\ Serving(my[v])
      /\ \A u \in Conns : (Joined(u) /\ my[u] = my[v]) => pc[u] = "done" ) =>
      /\ sess[my[v]].client_ws = None
      /\ LET ag == ReceiveAll(AgentStarted, Tail(out[my[v]]))
         IN ag.running => ~ag.client_connected

(***************************************************************************)
(* C15: the viewer puts an Input on its socket only while its control flag *)
(* is true, and the flag is true exactly after a CONTROL_GRANTED and       *)
(* before any later CONTROL_DENIED or CONTROL_REVOKED: a step that sends an *)
(* Input starts with the flag set, reading a CONTROL_GRANTED sets the flag *)
(* and reading a CONTROL_DENIED or CONTROL_REVOKED clears it.              *)
(***************************************************************************)
C15_InputOnlyWhileGranted ==
  [][ /\ ( /\ Len(viewer_out') > Len(viewer_out)
           /\ viewer_out'[Len(viewer_out')].tag = "INPUT" ) => has_control
      /\ \A size \in WindowSizes :
           /\ (viewer_running /\ ViewerReceive("CONTROL_GRANTED", size)) => has_control'
           /\ (viewer_running /\ ViewerReceive("CONTROL_DENIED", size)) => ~has_control'
           /\ (viewer_running /\ ViewerReceive("CONTROL_REVOKED", size)) => ~has_control'
    ]_vars

(***************************************************************************)
(* C18, as stated: decoding the wire bytes of a well-formed Frame or Input *)
(* and encoding the result yields the same bytes, header and payload.      *)
(***************************************************************************)
C18_RoundTripSameBytes ==
  codec_pc = "reencoded" => rewire = wire

(***************************************************************************)
(* C18, amended: the re-encoding has the same type byte, the same payload  *)
(* length and the same payload; its eight timestamp bytes are the clock at *)
(* the time of the re-encoding.                                            *)
(***************************************************************************)
C18_RoundTripButTimestamp ==
  codec_pc = "reencoded" =>
    /\ Len(rewire) = Len(wire)
    /\ rewire[1] = wire[1]
    /\ SubSeq(rewire, 10, Len(rewire)) = SubSeq(wire, 10, Len(wire))
    /\ FromBigEndian(SubSeq(rewire, 2, 9)) \in
         FromBigEndian(SubSeq(wire, 2, 9))..clock

C18_Witness ==
  /\ codec_pc = "reencoded"
  /\ wire[1] = FRAME
  /\ Len(wire) = HEADER_SIZE + 10
  /\ rewire # wire

(***************************************************************************)
(* C30: the first message the relay sends a connection that did not        *)
(* register as host is its reply to the first message, CLIENT_JOINED or    *)
(* ERROR; forwarded host data comes after the CLIENT_JOINED, also when the *)
(* host was already sending before the viewer was attached.                *)
(***************************************************************************)
C30_JoinReplyFirst ==
  \A v \in Conns :
    (v \notin DOMAIN sess /\ out[v] # <<>>) =>
      /\ out[v][1].b0 \in {CLIENT_JOINED, ERROR}
      /\ \A i \in 1..Len(out[v]) :
           out[v][i].b0 = RELAY_DATA =>
             \E j \in 1..(i - 1) : out[v][j].b0 = CLIENT_JOINED

C30_Witness ==
  \E v \in Conns :
    /\ Joined(v) /\ mark[v] >= 1
    /\ Len(out[v]) >= 2
    /\ out[v][1].b0 = CLIENT_JOINED
    /\ out[v][2].b0 = RELAY_DATA

(***************************************************************************)
(* C27: the cleanup of a departing viewer never detaches a different       *)
(* viewer: a viewer that was sent CLIENT_JOINED, whose connection is open  *)
(* and whose forward loop waits for its next message, is the viewer slot   *)
(* of its session as long as the session is in the registry.               *)
(***************************************************************************)
C27_LiveViewerStaysAttached ==
  \A v \in Conns :
    (Joined(v) /\ pc[v] = "client_wait" /\ Open(v) /\ InRegistry(my[v])) =>
      sess[my[v]].client_ws = v

(***************************************************************************)
(* C23: every session code the relay issues, that is every key of the      *)
(* registry, every code of a session object and every code sent in         *)
(* HOST_REGISTERED, has exactly 6 characters, each of them one of          *)
(* ABCDEFGHJKMNPQRSTUVWXYZ23456789; the generator draws from no other      *)
(* character.                                                              *)
(***************************************************************************)
C23_Alphabet ==
  {"A","B","C","D","E","F","G","H","J","K","M","N","P","Q","R","S","T","U","V",
   "W","X","Y","Z","2","3","4","5","6","7","8","9"}

C23_WellFormed(code) ==
  Len(code) = 6 /\ \A i \in 1..Len(code) : code[i] \in C23_Alphabet

C23_CodesWellFormed ==
  /\ \A i \in 1..Len(sessions) : C23_WellFormed(sessions[i].code)
  /\ \A s \in DOMAIN sess : C23_WellFormed(sess[s].session_code)
  /\ \A w \in DOMAIN ws_to_session : C23_WellFormed(ws_to_session[w])
  /\ \A c \in Conns : \A i \in 1..Len(out[c]) :
       out[c][i].b0 = HOST_REGISTERED => C23_WellFormed(out[c][i].code)
  /\ Range(alphabet) \subseteq C23_Alphabet

C23_Witness ==
  /\ Len(sessions) = 2
  /\ sessions[1].code # sessions[2].code
  /\ \A i \in 1..2 : HostRegisteredMsg(sessions[i].code) \in Range(out[sessions[i].sid])

(***************************************************************************)
(* C22: every message the relay has sent an endpoint is either one the     *)
(* relay originated, of type HOST_REGISTERED, CLIENT_JOINED,               *)
(* CLIENT_CONNECTED, ERROR or DISCONNECT, or a verbatim copy of a message  *)
(* read from the socket of the endpoint's peer in the same session; and    *)
(* the step that forwards a message sends that one message and nothing     *)
(* else, and changes neither the registry nor any session object.          *)
(***************************************************************************)
C22_Originated == {HOST_REGISTERED, CLIENT_JOINED, CLIENT_CONNECTED, ERROR, DISCONNECT}

C22_ForwardedOrOriginated ==
  [][ /\ \A c \in Conns : \A i \in 1..Len(out'[c]) :
           LET m == out'[c][i] IN
             IF m.src = None THEN m.b0 \in C22_Originated
             ELSE /\ m.src # c
                  /\ m \in Range(rd'[m.src])
                  /\ IF c \in DOMAIN sess' THEN my'[m.src] = c ELSE my'[c] = m.src
      /\ \A c \in Conns :
           ( /\ Len(out'[c]) > Len(out[c])
             /\ out'[c][Len(out'[c])].src # None ) =>
               /\ out'[c] = Append(out[c], out'[c][Len(out'[c])])
               /\ \A d \in Conns \ {c} : out'[d] = out[d]
               /\ sessions' = sessions /\ sess' = sess
               /\ ws_to_session' = ws_to_session
    ]_vars

C22_Witness ==
  \E v \in Conns :
    /\ Joined(v)
    /\ DataFrom(out[my[v]], v) # <<>>
    /\ DataFrom(out[v], my[v]) # <<>>

(***************************************************************************)
(* C21: first-byte dispatch at the host agent is unambiguous.  A forwarded *)
(* Frame or Input (first byte 0x20 or 0x21) is never handled as an         *)
(* envelope: the step of _receive_loop that reads it is the step of the    *)
(* application parser.  An envelope (CLIENT_CONNECTED, DISCONNECT, ERROR)  *)
(* is never parsed as an Input: the step that reads it applies no input.   *)
(***************************************************************************)
C21_DispatchUnambiguous ==
  [][\A m \in AgentMessages :
       (agent_running /\ AgentReceive(m)) =>
         /\ m.b0 \in {FRAME, INPUT} => AgentCommit(ReceiveProtocol(AgentCur, m))
         /\ m.b0 \in {CLIENT_CONNECTED, DISCONNECT, ERROR} => applied' = applied]_vars

(***************************************************************************)
(* C28: whenever the host agent processes CLIENT_CONNECTED or DISCONNECT   *)
(* it clears control_granted, whatever the flag was, and applies no input  *)
(* in that step; and a step that applies an input starts with the flag     *)
(* set, so with a grant_control() made after the last CLIENT_CONNECTED.    *)
(***************************************************************************)
C28_ControlClearedOnAttach ==
  [][/\ \A m \in AgentMessages :
          (agent_running /\ m.b0 \in {CLIENT_CONNECTED, DISCONNECT} /\ AgentReceive(m)) =>
            /\ control_granted' = FALSE
            /\ applied' = applied
            /\ client_connected' = (m.b0 = CLIENT_CONNECTED)
     /\ applied' # applied => control_granted]_vars

\* control was granted to the attached viewer and the receive loop is about
\* to read the next viewer's CLIENT_CONNECTED
C28_Witness ==
  /\ agent_running /\ recv_pc = "loop"
  /\ client_connected /\ control_granted

C24_MalformedHasNoEffect ==
  [][(agent_running /\ AgentReceive(AgentMsg(INPUT, 0))) =>
       UNCHANGED HostAgentVars]_vars

(***************************************************************************)
(* C25: on the signaling server a registered session stays found.  A       *)
(* successful REGISTER acknowledgement names a session that is now in the  *)
(* table with the registering connection's address and the port of the     *)
(* request; while a session is in the table its address and port never     *)
(* change, and it leaves the table only once it has expired (closing a     *)
(* connection removes nothing); and a LOOKUP of a session that is in the   *)
(* table and has not expired, from any connection, is answered on that     *)
(* connection with success and the recorded address and port.              *)
(***************************************************************************)
C25_RegisteredStaysFound ==
  [][/\ \A c \in SigConns, sid \in RequestIds, p \in HostPorts :
          (/\ sig_conn[c] = "open" /\ sig_conn'[c] = "open"
           /\ sig_now' = sig_now
           /\ sig_reply'.msg.cls = "RegisterAckMessage" /\ sig_reply'.msg.success
           /\ SigRegister(c, sid, p)) =>
            LET s == sig_reply'.msg.session_id IN
              /\ sig_reply'.to = c
              /\ s \notin DOMAIN sig_sessions
              /\ s \in DOMAIN sig_sessions'
              /\ sig_sessions'[s].host_ip = client_ip(c)
              /\ sig_sessions'[s].host_port = p
     /\ \A sid \in DOMAIN sig_sessions :
          IF sid \in DOMAIN sig_sessions'
          THEN /\ sig_sessions'[sid].host_ip = sig_sessions[sid].host_ip
               /\ sig_sessions'[sid].host_port = sig_sessions[sid].host_port
          ELSE is_expired(sig_sessions[sid], session_timeout, sig_now)
     /\ \A c \in SigConns, sid \in RequestIds :
          (/\ sig_conn[c] = "open"
           /\ sid \in DOMAIN sig_sessions
           /\ ~is_expired(sig_sessions[sid], session_timeout, sig_now)
           /\ sig_now' = sig_now /\ sig_conn' = sig_conn
           /\ SigLookup(c, sid)) =>
            /\ sig_reply' =
                 [to |-> c,
                  msg |-> LookupResponseMessage(TRUE, sid, sig_sessions[sid].host_ip,
                                                sig_sessions[sid].host_port,
                                                ErrorCode.SUCCESS)]
            /\ sig_sessions' = sig_sessions]_vars

\* two sessions side by side; one of them was just looked up with success
\* from another connection than the one that registered it, which has closed
C25_Witness ==
  /\ Cardinality(DOMAIN sig_sessions) = 2
  /\ sig_reply.msg.cls = "LookupResponseMessage"
  /\ sig_reply.msg.success
  /\ sig_reply.msg.session_id \in DOMAIN sig_sessions
  /\ sig_reply.msg.host_ip # client_ip(sig_reply.to)
  /\ sig_conn[sig_reply.msg.host_ip] = "closed"
  /\ sig_reply.msg.host_port = sig_sessions[sig_reply.msg.session_id].host_port

(***************************************************************************)
(* C26: on the signaling server a LOOKUP of a well-formed session id that  *)
(* is not in the table is answered with success = false and                *)
(* SESSION_NOT_FOUND, and the table is left as it was.                     *)
(***************************************************************************)
C26_UnknownLookupNotFound ==
  [][\A c \in SigConns, sid \in RequestIds :
       (/\ sig_conn[c] = "open"
        /\ validate_session_id(sid)
        /\ sid \notin DOMAIN sig_sessions
        /\ sig_now' = sig_now /\ sig_conn' = sig_conn
        /\ SigLookup(c, sid)) =>
         /\ sig_reply' =
              [to |-> c,
               msg |-> LookupResponseMessage(FALSE, sid, None, None,
                                             ErrorCode.SESSION_NOT_FOUND)]
         /\ sig_sessions' = sig_sessions]_vars

\* another session is registered while a lookup has just failed with
\* SESSION_NOT_FOUND
C26_Witness ==
  /\ sig_reply.msg.cls = "LookupResponseMessage"
  /\ ~sig_reply.msg.success
  /\ sig_reply.msg.error_code = ErrorCode.SESSION_NOT_FOUND
  /\ validate_session_id(sig_reply.msg.session_id)
  /\ sig_reply.msg.session_id \notin DOMAIN sig_sessions
  /\ DOMAIN sig_sessions # {}

(***************************************************************************)
(* C31: when the host agent reads a control request and no approval        *)
(* callback is registered, the step is the one of _deny_control that sends *)
(* CONTROL_DENIED: the receive loop goes on, control_granted is false      *)
(* after it, and nothing else of the agent changes.                        *)
(***************************************************************************)
C31_RequestWithoutCallbackDenied ==
  [][\A m \in AgentMessages :
       (/\ agent_running /\ ~control_callback /\ ~control_granted
        /\ m.b0 \notin {-1, CLIENT_CONNECTED, DISCONNECT, ERROR, FRAME, INPUT}
        /\ AgentReceive(m)) =>
         /\ agent_running' /\ recv_pc' = "loop"
         /\ ~control_granted'
         /\ client_connected' = client_connected]_vars

(***************************************************************************)
(* C32: the viewer's control flag is the outcome of the last control       *)
(* envelope it received: a receive step makes it true for CONTROL_GRANTED, *)
(* false for CONTROL_DENIED and CONTROL_REVOKED and leaves it alone for    *)
(* every other message, and no window event changes it.                    *)
(***************************************************************************)
C32_FlagFollowsControlEnvelopes ==
  [][/\ \A m \in ViewerMessages, size \in WindowSizes :
          (viewer_running /\ ViewerReceive(m, size)) =>
            has_control' = (CASE m = "CONTROL_GRANTED" -> TRUE
                              [] m \in {"CONTROL_DENIED", "CONTROL_REVOKED"} -> FALSE
                              [] OTHER -> has_control)
     /\ \A e \in ViewerEvents, pos \in WindowSizes :
          ViewerEvent(e, pos) => has_control' = has_control]_vars

(***************************************************************************)
(* C33: a connection's role is fixed by its first message.  When the relay *)
(* reads a HOST_REGISTER or CLIENT_JOIN that an established host or viewer *)
(* sent later, the step creates no session, attaches no viewer and changes *)
(* no registry entry, and the message is sent on unchanged to the peer or  *)
(* to no one.                                                              *)
(***************************************************************************)
LateRegistrationRead(c) ==
  /\ Len(rd'[c]) = Len(rd[c]) + 1
  /\ rd'[c][Len(rd'[c])].src = c
  /\ rd'[c][Len(rd'[c])].b0 \in {HOST_REGISTER, CLIENT_JOIN}

C33_RoleFixedByFirstMessage ==
  [][\A c \in Conns :
       LateRegistrationRead(c) =>
         LET m == rd'[c][Len(rd'[c])] IN
           /\ Range(sessions') \subseteq Range(sessions)
           /\ DOMAIN sess' = DOMAIN sess
           /\ \A s \in DOMAIN sess :
                /\ sess'[s].host_ws = sess[s].host_ws
                /\ sess'[s].session_code = sess[s].session_code
                /\ sess'[s].client_ws \in {sess[s].client_ws, None}
           /\ \A w \in DOMAIN ws_to_session' :
                w \in DOMAIN ws_to_session /\ ws_to_session'[w] = ws_to_session[w]
           /\ my' = my
           /\ \A d \in Conns :
                \/ out'[d] = out[d]
                \/ /\ out'[d] = Append(out[d], m)
                   /\ d # c
                   /\ IF c \in DOMAIN sess THEN sess[c].client_ws = d
                      ELSE sess[my[c]].host_ws = d]_vars

\* a viewer has received the host's late HOST_REGISTER and the host the
\* viewer's late CLIENT_JOIN, and the registry still holds one session
C33_Witness ==
  \E v \in Conns :
    /\ Joined(v)
    /\ Len(sessions) = 1
    /\ \E i \in 1..Len(out[v]) :
         out[v][i].b0 = HOST_REGISTER /\ out[v][i].src = my[v]
    /\ \E i \in 1..Len(out[my[v]]) :
         out[my[v]][i].b0 = CLIENT_JOIN /\ out[my[v]][i].src = v

(***************************************************************************)
(* C34: relay shutdown destroys every session.  stop() clears `running`    *)
(* and closes each session it lists: every message it sends is a           *)
(* DISCONNECT with reason "Server shutting down", sent to the viewer and   *)
(* to the host of the session it is closing, whose transports it then      *)
(* closes, and a session it has dealt with is out of the registry.  When   *)
(* stop() has completed, the registry and the transport map are empty and  *)
(* every connection is closed, also when a host registered during the      *)
(* shutdown.                                                               *)
(***************************************************************************)
StopperStep ==
  \/ StopBegin
  \/ CloseClientClose(Stopper) \/ CloseClientClosed(Stopper)
  \/ CloseHostClose(Stopper) \/ CloseHostClosed(Stopper)

ScrollField(data) == FromBigEndian(SubSeq(data, HEADER_SIZE + 10, HEADER_SIZE + 11))

PointerEvents == {"MOUSEMOTION", "MOUSEBUTTONDOWN", "MOUSEBUTTONUP", "MOUSEWHEEL"}

C36_PointerScaledToLatestFrame ==
  [][/\ \A size \in WindowSizes :
          (viewer_running /\ ViewerReceive("FRAME", size)) => remote_size' = size
     /\ \A pos \in WindowSizes :
          /\ ViewerEvent("VIDEORESIZE", pos) => display_size' = pos
          /\ \A e \in PointerEvents :
               (/\ ViewerEvent(e, pos)
                /\ Len(viewer_out') > Len(viewer_out)
                /\ display_size[1] # 0 /\ display_size[2] # 0) =>
                  viewer_out'[Len(viewer_out')].pos =
                    <<(pos[1] * remote_size[1]) \div display_size[1],
                      (pos[2] * remote_size[2]) \div display_size[2]>>]_vars

(***************************************************************************)
(* C37, as stated: after each sent frame the quality follows the mean of   *)
(* the window of send times: above 50% of the target frame interval it     *)
(* becomes max(min_quality, q - 2), below 20% min(max_quality, q + 1),     *)
(* otherwise it is unchanged.                                              *)
(***************************************************************************)
MeanAboveHalf(ft) == Sum(ft) * 2 * capture_fps > 1000 * Len(ft)
MeanBelowFifth(ft) == Sum(ft) * 5 * capture_fps < 1000 * Len(ft)

\* the last n elements of the sequence q
LastOf(q, n) == IF Len(q) <= n THEN q ELSE SubSeq(q, Len(q) - n + 1, Len(q))

C37_AdaptsAfterEachFrame ==
  [][\A t \in SendTimes :
       StreamSent(t) =>
         current_quality' =
           IF MeanAboveHalf(frame_times') THEN Max(min_quality, current_quality - 2)
           ELSE IF MeanBelowFifth(frame_times') THEN Min(max_quality, current_quality + 1)
           ELSE current_quality]_vars

(***************************************************************************)
(* C37, amended: after each sent frame the window holds the last 30 send   *)
(* times, never more; the quality is adjusted as stated once the window    *)
(* holds at least 10 send times, and is unchanged before that.             *)
(***************************************************************************)
C37_AdaptsOnceWindowHasTen ==
  [][\A t \in SendTimes :
       StreamSent(t) =>
         /\ frame_times' = LastOf(Append(frame_times, t), 30)
         /\ Len(frame_times') <= 30
         /\ current_quality' =
              IF Len(frame_times') < 10 THEN current_quality
              ELSE IF MeanAboveHalf(frame_times')
                THEN Max(min_quality, current_quality - 2)
              ELSE IF MeanBelowFifth(frame_times')
                THEN Min(max_quality, current_quality + 1)
              ELSE current_quality]_vars

\* the window is full of slow sends that replaced fast ones, and the quality
\* has come down to min_quality
C37_Witness ==
  /\ Len(frame_times) = 30
  /\ frames_sent > 30
  /\ frame_times[1] = 40
  /\ jpeg_quality = 70
  /\ current_quality = min_quality

(***************************************************************************)
(* C38, as stated: a REGISTER that asks for a session id already in the    *)
(* table never overwrites the existing session: the caller receives        *)
(* success with a freshly generated id that was not in the table, and      *)
(* every existing session is unchanged.                                    *)
(***************************************************************************)
ExistingUnchanged ==
  \A x \in DOMAIN sig_sessions :
    x \in DOMAIN sig_sessions' /\ sig_sessions'[x] = sig_sessions[x]

FreshIdAcked(c, p) ==
  /\ sig_reply'.to = c
  /\ sig_reply'.msg.cls = "RegisterAckMessage"
  /\ sig_reply'.msg.success
  /\ sig_reply'.msg.error_code = ErrorCode.SUCCESS
  /\ LET sid == sig_reply'.msg.session_id IN
       /\ validate_session_id(sid)
       /\ sid \notin DOMAIN sig_sessions
       /\ DOMAIN sig_sessions' = DOMAIN sig_sessions \cup {sid}
       /\ sig_sessions'[sid] = Session(sid, client_ip(c), p, sig_now)

C38_TakenIdGetsFreshId ==
  [][\A c \in SigConns, sid \in RequestIds, p \in HostPorts :
       (/\ sid \in DOMAIN sig_sessions
        /\ sig_conn[c] = "open" /\ sig_now' = sig_now
        /\ (sig_reply'.to = c \/ sig_conn'[c] = "closed")
        /\ SigRegisterNoted(c, sid, p)) =>
         (ExistingUnchanged /\ FreshIdAcked(c, p))]_vars

(***************************************************************************)
(* C38, amended: such a REGISTER never overwrites the existing session.    *)
(* When the table is full the caller receives CONNECTION_REFUSED and the   *)
(* table is unchanged; otherwise the caller receives success with a        *)
(* freshly generated id that was not in the table, now registered to the   *)
(* caller, unless each of the generator's 100 draws was taken: then the    *)
(* connection is closed without a reply and the table is unchanged.        *)
(***************************************************************************)
C38_TakenIdNeverOverwrites ==
  [][\A c \in SigConns, sid \in RequestIds, p \in HostPorts :
       (/\ sid \in DOMAIN sig_sessions
        /\ sig_conn[c] = "open" /\ sig_now' = sig_now
        /\ (sig_reply'.to = c \/ sig_conn'[c] = "closed")
        /\ SigRegisterNoted(c, sid, p)) =>
         /\ ExistingUnchanged
         /\ IF Cardinality(DOMAIN sig_sessions) >= max_sessions
            THEN /\ sig_sessions' = sig_sessions
                 /\ sig_reply' = [to |-> c,
                                  msg |-> RegisterAckMessage(FALSE, NoId,
                                            ErrorCode.CONNECTION_REFUSED)]
            ELSE \/ FreshIdAcked(c, p)
                 \/ /\ sig_sessions' = sig_sessions
                    /\ sig_reply' = sig_reply
                    /\ sig_conn'[c] = "closed"]_vars

\* a host that asked for the id of another host's session holds a new one
C38_Witness ==
  /\ asked_taken
  /\ sig_reply.msg.cls = "RegisterAckMessage"
  /\ sig_reply.msg.success
  /\ \E old \in DOMAIN sig_sessions :
       /\ old # sig_reply.msg.session_id
       /\ sig_sessions[old].host_ip # client_ip(sig_reply.to)
       /\ sig_sessions[old].registered_at < sig_now
  /\ sig_reply.msg.session_id \in DOMAIN sig_sessions
  /\ sig_sessions[sig_reply.msg.session_id].host_ip = client_ip(sig_reply.to)
  /\ sig_sessions[sig_reply.msg.session_id].registered_at = sig_now

(***************************************************************************)
(* C39: a LOOKUP succeeds iff the session is registered and its last       *)
(* heartbeat (or registration) is no older than session_timeout.  Every    *)
(* HEARTBEAT for a registered session is acknowledged and refreshes it; a  *)
(* session whose heartbeat is recent enough is removed by no step; a       *)
(* LOOKUP of a session whose timeout has elapsed reports SESSION_EXPIRED   *)
(* and removes it; and once the timeout of a session has elapsed no step   *)
(* makes it servable again: it stays expired until it is removed.          *)
(***************************************************************************)
Fresh(ss, sid, now) == now - ss[sid].last_heartbeat <= session_timeout

LookupIffFresh ==
  \A c \in SigConns, sid \in RequestIds :
    (sig_conn[c] = "open" /\ sig_now' = sig_now /\ SigLookup(c, sid)) =>
      /\ sig_reply'.msg.success <=>
           (sid \in DOMAIN sig_sessions /\ Fresh(sig_sessions, sid, sig_now))
      /\ sig_reply'.msg.success =>
           /\ sig_reply'.msg.session_id = sid
           /\ sig_reply'.msg.host_ip = sig_sessions[sid].host_ip
           /\ sig_reply'.msg.host_port = sig_sessions[sid].host_port
      /\ (sid \in DOMAIN sig_sessions /\ ~Fresh(sig_sessions, sid, sig_now)) =>
           /\ sig_reply'.msg.error_code = ErrorCode.SESSION_EXPIRED
           /\ sid \notin DOMAIN sig_sessions'

HeartbeatRefreshes ==
  \A c \in SigConns, sid \in RequestIds :
    (/\ sid \in DOMAIN sig_sessions
     /\ sig_conn[c] = "open" /\ sig_now' = sig_now
     /\ SigHeartbeat(c, sid)) =>
       /\ sig_reply' = [to |-> c, msg |-> HeartbeatAckMessage(sid)]
       /\ sid \in DOMAIN sig_sessions'
       /\ sig_sessions'[sid].last_heartbeat = sig_now

FreshNeverRemoved ==
  \A sid \in DOMAIN sig_sessions :
    Fresh(sig_sessions, sid, sig_now) => sid \in DOMAIN sig_sessions'

ExpiredStaysExpired ==
  \A sid \in DOMAIN sig_sessions :
    ~Fresh(sig_sessions, sid, sig_now) =>
      (sid \in DOMAIN sig_sessions' => ~Fresh(sig_sessions', sid, sig_now'))

C39_ServedIffHeartbeatRecent ==
  [][/\ LookupIffFresh
     /\ HeartbeatRefreshes
     /\ FreshNeverRemoved
     /\ ExpiredStaysExpired]_vars

(***************************************************************************)
(* C40, as stated: after any sequence of add, get_next and get_latest the  *)
(* buffer holds at most max_size frames in ascending order of frame        *)
(* number, add drops the lowest-numbered frame on overflow, and the frames *)
(* returned by successive get_next and get_latest calls have strictly      *)
(* increasing frame numbers: a displayed frame is never returned again.    *)
(***************************************************************************)
Count(q, x) == Cardinality({ i \in 1..Len(q) : q[i] = x })

BufferOrdered(q) ==
  /\ Len(q) <= max_size
  /\ \A i \in 1..Len(q) - 1 : q[i] <= q[i + 1]

\* an add of n keeps every frame and n, but for the lowest-numbered of them
\* when the buffer was full
AddDropsLowest ==
  \A n \in 0..MaxFrameNo :
    FbAdd(n) =>
      LET lowest == IF fb_frames # <<>> /\ fb_frames[1] < n THEN fb_frames[1] ELSE n
      IN \A x \in 0..MaxFrameNo :
           Count(fb_frames', x) =
             Count(fb_frames, x) + (IF x = n THEN 1 ELSE 0)
               - (IF Len(fb_frames) = max_size /\ x = lowest THEN 1 ELSE 0)

C40_ReturnedStrictlyIncreasing ==
  [][/\ BufferOrdered(fb_frames')
     /\ AddDropsLowest
     /\ \A i \in 1..Len(fb_returned') - 1 :
          fb_returned'[i].n < fb_returned'[i + 1].n]_vars

(***************************************************************************)
(* C40, amended: the buffer holds at most max_size frames in ascending     *)
(* (non-decreasing) order and add drops the lowest-numbered on overflow;   *)
(* the numbers of the returned frames never decrease; get_next returns     *)
(* only a frame numbered above every frame returned before, while          *)
(* get_latest returns the highest-numbered buffered frame, which may be    *)
(* the frame returned last.                                                *)
(***************************************************************************)
C40_ReturnedNeverDecreases ==
  [][/\ BufferOrdered(fb_frames')
     /\ AddDropsLowest
     /\ \A i \in 1..Len(fb_returned') - 1 :
          /\ fb_returned'[i].n <= fb_returned'[i + 1].n
          /\ fb_returned'[i + 1].op = "get_next" =>
               fb_returned'[i].n < fb_returned'[i + 1].n
     /\ FbGetLatest =>
          /\ fb_frames # <<>> => fb_returned' # fb_returned
          /\ fb_returned' # fb_returned =>
               /\ \A i \in 1..Len(fb_frames) :
                    fb_frames[i] <= fb_returned'[Len(fb_returned')].n
               /\ fb_returned'[Len(fb_returned')].n \in Range(fb_frames)
     /\ FbGetNext =>
          (fb_returned' # fb_returned =>
             fb_returned'[Len(fb_returned')].n \in Range(fb_frames))]_vars

\* a full buffer whose highest frame get_latest returned twice, after
\* get_next had returned a lower one
C40_Witness ==
  /\ Len(fb_frames) = max_size
  /\ Len(fb_returned) = 3
  /\ fb_returned[1].op = "get_next"
  /\ fb_returned[2].op = "get_latest"
  /\ fb_returned[3].op = "get_latest"
  /\ fb_returned[1].n < fb_returned[2].n
  /\ fb_returned[2].n = fb_returned[3].n
====
